---- MODULE Spec2Model ----
(***************************************************************************)
(* The Intcode virtual machine of src/lib/intcode.js (function cpu), with  *)
(* its default input source src/lib/askInput.js (askNumber).               *)
(*                                                                         *)
(* The JavaScript array `mem` is modelled by two variables: `mem`, the     *)
(* indexed cells 0 .. length-1 (cell a is mem[a + 1]), and `props`, the    *)
(* properties with a negative key that `mem[outaddr] = value` creates on   *)
(* the array object when outaddr < 0 (they are not cells: they do not      *)
(* count towards mem.length and get() refuses to read them).               *)
(*                                                                         *)
(* Numbers are JavaScript doubles; every value the model reaches is an     *)
(* integer far below 2^53, where double arithmetic is exact, so they are   *)
(* modelled as integers.                                                   *)
(*                                                                         *)
(* History variables: `path` lists the <<ptr, rbase>> pairs at which the   *)
(* loop fetched an instruction; `initial` keeps the memory cpu was called  *)
(* with; `run` numbers the call of cpu (1 or 2) and `first` keeps what the *)
(* first call ended with, for the specification SpecTwice that calls cpu a *)
(* second time on the same program with the same answers.                  *)
(***************************************************************************)
EXTENDS Integers, Sequences, FiniteSets, TLC

VARIABLES mem, props, ptr, rbase, status, fault, instruction, opcode,
          out, prompts, consumed, steps,
          path, initial, run, first,
          rl, me, parked, day2, wide,
          two, chunks, robot, lab, typed

vars == <<mem, props, ptr, rbase, status, fault, instruction, opcode,
          out, prompts, consumed, steps, path, initial, run, first,
          rl, me, parked, day2, wide, two, chunks, robot, lab, typed>>

\* the variables of the programs of 04b.js, unnamed/part_001, the painting
\* robot and 14a.js
others == <<two, chunks, robot, lab>>

(***************************************************************************)
(* Bounds of the model.                                                    *)
(***************************************************************************)
\* number of loop iterations (instructions fetched) explored per run
MaxSteps == 3
\* number of answers typed at the prompt per run
MaxPrompts == 2
\* number of loop iterations granted to the example programs, which are run
\* to their halt
MaxRun == 100
\* longest sequence given to chunked, and largest chunk size
MaxItems == 4
MaxSize == 3
\* number of outputs of the brain handled by the painting robot
MaxOutputs == 6
\* largest quantity asked of a Lab, and number of calls made on it
MaxQty == 3
MaxCalls == 2

(***************************************************************************)
(* JavaScript arithmetic.                                                  *)
(***************************************************************************)
\* a % b of JavaScript for b > 0: the result takes the sign of the dividend
JsRem(a, b) == IF a >= 0 THEN a % b ELSE 0 - ((0 - a) % b)

RECURSIVE Pow10(_)
Pow10(k) == IF k = 0 THEN 1 ELSE 10 * Pow10(k - 1)

\* digit with the index off by one
digitOffByOne(n, idx) == JsRem(n \div Pow10(idx + 1), 10)

\* Math.floor(n / 10 ** idx) % 10
digit(n, idx) == JsRem(n \div Pow10(idx), 10)

(***************************************************************************)
(* Results of the helpers that may throw: a value or the thrown message.   *)
(***************************************************************************)
Ok(v) == [ok |-> TRUE, val |-> v, err |-> "none"]
Err(e) == [ok |-> FALSE, val |-> 0, err |-> e]

\* get without its check of the sign: a negative index of an array reads
\* undefined, which `|| 0` turns into 0
getUnchecked(m, addr) ==
  IF addr >= 0 /\ addr < Len(m) THEN Ok(m[addr + 1]) ELSE Ok(0)

\* get that refuses an address beyond the extent
getBoundsChecked(m, addr) ==
  IF addr < 0 THEN Err("addr must be positive")
  ELSE IF addr < Len(m) THEN Ok(m[addr + 1])
  ELSE Err("Buffer overflow")

\* function get(addr): invariant(addr >= 0); return mem[addr] || 0
get(m, addr) ==
  IF addr < 0 THEN Err("addr must be positive")
  ELSE IF addr < Len(m)
       THEN (IF m[addr + 1] = 0 THEN Ok(0) ELSE Ok(m[addr + 1]))
       ELSE Ok(0)

\* function getMode(idx) of the instruction being executed
getMode(ins, idx) ==
  LET bit == digit(ins, idx + 2)
  IN  CASE bit = 0 -> [ok |-> TRUE, val |-> "POSITIONAL", err |-> "none"]
        [] bit = 1 -> [ok |-> TRUE, val |-> "IMMEDIATE", err |-> "none"]
        [] bit = 2 -> [ok |-> TRUE, val |-> "RELATIVE", err |-> "none"]
        [] OTHER   -> [ok |-> FALSE, val |-> "NONE", err |-> "Unexpected digit"]

\* read that resolves a Relative operand as a Positional one
readIgnoresBase(m, p, rb, ins, idx) ==
  LET value == get(m, p + idx + 1)
      mode  == getMode(ins, idx)
  IN  IF ~value.ok THEN value
      ELSE IF ~mode.ok THEN Err(mode.err)
      ELSE IF mode.val = "IMMEDIATE" THEN value
      ELSE get(m, value.val)

\* function read(idx)
read(m, p, rb, ins, idx) ==
  LET addr  == p + idx + 1
      value == get(m, addr)
      mode  == getMode(ins, idx)
  IN  IF ~value.ok THEN value
      ELSE IF ~mode.ok THEN Err(mode.err)
      ELSE CASE mode.val = "IMMEDIATE" -> value
             [] mode.val = "RELATIVE"  -> get(m, value.val + rb)
             [] OTHER                  -> get(m, value.val)

\* mem[outaddr] = value on a JavaScript array
Store(m, pr, outaddr, value) ==
  IF outaddr < 0
  THEN [ok |-> TRUE, err |-> "none", mem |-> m,
        props |-> [k \in (DOMAIN pr) \cup {outaddr} |->
                      IF k = outaddr THEN value ELSE pr[k]]]
  ELSE IF outaddr < Len(m)
  THEN [ok |-> TRUE, err |-> "none", props |-> pr,
        mem |-> [m EXCEPT ![outaddr + 1] = value]]
  ELSE [ok |-> TRUE, err |-> "none", props |-> pr,
        mem |-> m \o [i \in 1 .. (outaddr - Len(m)) |-> 0] \o <<value>>]

\* growth that allocates one cell too many
GrowPastEnd(m, outaddr) == m \o [i \in 1 .. (outaddr - Len(m) + 2) |-> 0]

\* growth whose fill starts at 0 instead of the old length
GrowFillsAll(m, outaddr) == [i \in 1 .. outaddr |-> 0]

\* mem.length = outaddr; mem.fill(0, len)   (only called with outaddr >= len)
Grow(m, outaddr) == m \o [i \in 1 .. (outaddr - Len(m)) |-> 0]

\* put without its check of the mode: an Immediate destination is taken for
\* a Positional one
putAllowsImmediate(m, pr, p, rb, ins, idx, value) ==
  LET mode    == getMode(ins, idx)
      raw     == get(m, p + idx + 1)
      outaddr == IF mode.val = "RELATIVE" THEN raw.val + rb ELSE raw.val
      failed(e) == [ok |-> FALSE, err |-> e, mem |-> m, props |-> pr]
  IN  IF ~mode.ok THEN failed(mode.err)
      ELSE IF ~raw.ok THEN failed(raw.err)
      ELSE IF outaddr >= Len(m)
           THEN Store(Grow(m, outaddr), pr, outaddr, value)
           ELSE Store(m, pr, outaddr, value)

\* put that resolves a Relative destination as a Positional one
putIgnoresBase(m, pr, p, rb, ins, idx, value) ==
  LET mode == getMode(ins, idx)
      raw  == get(m, p + idx + 1)
      failed(e) == [ok |-> FALSE, err |-> e, mem |-> m, props |-> pr]
  IN  IF ~mode.ok THEN failed(mode.err)
      ELSE IF mode.val = "IMMEDIATE"
           THEN failed("Mode cannot be immediate for writes")
      ELSE IF ~raw.ok THEN failed(raw.err)
      ELSE IF raw.val >= Len(m)
           THEN Store(Grow(m, raw.val), pr, raw.val, value)
           ELSE Store(m, pr, raw.val, value)

\* function put(idx, value)
put(m, pr, p, rb, ins, idx, value) ==
  LET mode    == getMode(ins, idx)
      loc     == p + idx + 1
      raw     == get(m, loc)
      outaddr == IF mode.val = "RELATIVE" THEN raw.val + rb ELSE raw.val
      len     == Len(m)
      failed(e) == [ok |-> FALSE, err |-> e, mem |-> m, props |-> pr]
  IN  IF ~mode.ok THEN failed(mode.err)
      ELSE IF mode.val = "IMMEDIATE"
           THEN failed("Mode cannot be immediate for writes")
      ELSE IF ~raw.ok THEN failed(raw.err)
      ELSE IF outaddr >= len
           THEN LET g == Store(Grow(m, outaddr), pr, outaddr, value)
                IN  Store(g.mem, g.props, outaddr, value)
           ELSE Store(m, pr, outaddr, value)

\* an add that multiplies
SumAsProduct(a, b) == a * b

\* an equality that is never true
EqualNever(a, b) == 0

\* a multiplication that adds
ProductAsSum(a, b) == a + b

\* a less-than that accepts equality
LessOrEqual(a, b) == IF a <= b THEN 1 ELSE 0

\* the operation of each arithmetic / comparison opcode (cases 1, 2, 7, 8)
Sum(a, b) == a + b
Product(a, b) == a * b
LessThan(a, b) == IF a < b THEN 1 ELSE 0
Equal(a, b) == IF a = b THEN 1 ELSE 0

(***************************************************************************)
(* The default input source: Number(answer) of an answer typed at the      *)
(* prompt.  Answers are strings over a small alphabet.                     *)
(***************************************************************************)
Answers ==
  LET Chars == {"-", "1", "x"}
  IN  {<<>>} \cup {<<c>> : c \in Chars} \cup {<<c, d>> : c \in Chars, d \in Chars}

Digits == <<"0", "1", "2", "3", "4", "5", "6", "7", "8", "9">>

IsDigit(c) == \E d \in 1 .. 10 : Digits[d] = c
DigitValue(c) == IF IsDigit(c) THEN (CHOOSE d \in 1 .. 10 : Digits[d] = c) - 1 ELSE 0

RECURSIVE Decimal(_)
Decimal(s) == IF Len(s) = 0 THEN 0
              ELSE 10 * Decimal(SubSeq(s, 1, Len(s) - 1)) + DigitValue(s[Len(s)])

AllDigits(s) == Len(s) > 0 /\ \A i \in 1 .. Len(s) : IsDigit(s[i])

\* a conversion that stops at the first character that is no digit, as
\* parseInt does
NumberOfPrefix(s) ==
  IF Len(s) = 0 THEN [nan |-> FALSE, val |-> 0]
  ELSE IF IsDigit(s[1])
  THEN [nan |-> FALSE,
        val |-> Decimal(SubSeq(s, 1, IF AllDigits(s) THEN Len(s) ELSE 1))]
  ELSE IF s[1] = "-" /\ AllDigits(Tail(s))
  THEN [nan |-> FALSE, val |-> 0 - Decimal(Tail(s))]
  ELSE [nan |-> TRUE, val |-> 0]

\* Number(answer): the empty string converts to 0, a signed decimal to its
\* value, anything else to NaN
Number(s) ==
  IF Len(s) = 0 THEN [nan |-> FALSE, val |-> 0]
  ELSE IF AllDigits(s) THEN [nan |-> FALSE, val |-> Decimal(s)]
  ELSE IF s[1] = "-" /\ AllDigits(Tail(s))
       THEN [nan |-> FALSE, val |-> 0 - Decimal(Tail(s))]
  ELSE [nan |-> TRUE, val |-> 0]

(***************************************************************************)
(* Initial memories: an optional "adjust relative base" prefix, one        *)
(* instruction, its three operand cells, and a halt.  The instruction has  *)
(* any opcode and any mode digit, valid or not, for each operand the       *)
(* opcode uses.  A few programs with several input / output instructions   *)
(* are added to them.                                                      *)
(***************************************************************************)
Opcodes == {0, 1, 2, 3, 4, 5, 6, 7, 8, 9, 99}
Vals == {-2, 1, 7}

\* number of operands each case of the switch reads or writes
Arity(op) == CASE op \in {1, 2, 7, 8} -> 3
               [] op \in {5, 6}       -> 2
               [] OTHER               -> 1

DigitsAt(op, i) == IF i < Arity(op) THEN {0, 1, 2, 3} ELSE {0}

Instructions ==
  UNION {{op + 100 * m0 + 1000 * m1 + 10000 * m2 :
            m0 \in DigitsAt(op, 0), m1 \in DigitsAt(op, 1), m2 \in DigitsAt(op, 2)} :
         op \in Opcodes}

Probes ==
  {pre \o <<ins, a, b, c, 99>> :
     pre \in {<<>>, <<109, 3>>}, ins \in Instructions, a \in Vals, b \in Vals, c \in Vals}

\* programs that read or print more than one value before they halt
IOPrograms ==
  { <<3, 5, 3, 6, 99, 0, 0>>,
    <<3, 5, 4, 5, 99, 0>>,
    <<104, 1, 104, 7, 99>>,
    <<3, 9, 3, 10, 4, 9, 4, 10, 99>> }

\* the program that outputs a copy of itself, from the examples of day 9
Examples ==
  { <<109, 1, 204, -1, 1001, 100, 1, 100, 1008, 100, 16, 101, 1006, 101, 0, 99>> }


\* what a call of cpu leaves behind; NoRun before the first call has ended
Ended(m, pr, p, rb, o, c, pa) ==
  [mem |-> m, props |-> pr, ptr |-> p, rbase |-> rb, out |-> o,
   consumed |-> c, path |-> pa]

NoRun == Ended(<< >>, << >>, 0, 0, << >>, << >>, << >>)

\* the local state of a call of cpu that is not the one executing
Instance(who, m) ==
  [me |-> who, mem |-> m, props |-> << >>, ptr |-> 0, rbase |-> 0,
   status |-> "Running", fault |-> "none", instruction |-> 0, opcode |-> 0,
   out |-> << >>, prompts |-> 0, consumed |-> << >>, steps |-> 0,
   path |-> << >>, initial |-> m]

\* no second call of cpu
NoInstance == [Instance(0, << >>) EXCEPT !.status = "None"]

\* run() of puzzle-02-part1.js has not been called
NoDay2 ==
  [input |-> << >>, mem |-> << >>, ptr |-> 0, depth |-> 0, status |-> "Idle",
   output |-> << >>]

\* no program with large numbers is loaded
NoWide ==
  [input |-> << >>, mem |-> << >>, ptr |-> 0, out |-> << >>, status |-> "Idle"]

\* cpu of 04b.js or chunked() has not been called, the robot or the Lab has
\* not been built
Idle == [status |-> "Idle"]

\* none of the other programs is running
NoOthers ==
  /\ two = Idle
  /\ chunks = Idle
  /\ robot = Idle
  /\ lab = Idle

Init ==
  /\ mem \in Probes \cup IOPrograms \cup Examples
  /\ props = << >>
  /\ ptr = 0
  /\ rbase = 0
  /\ status = "Running"
  /\ fault = "none"
  /\ instruction = 0
  /\ opcode = 0
  /\ out = << >>
  /\ prompts = 0
  /\ consumed = << >>
  /\ steps = 0
  /\ path = << >>
  /\ initial = mem
  /\ run = 1
  /\ first = NoRun
  /\ rl = [questionCallback |-> 0, closed |-> FALSE]
  /\ typed = << >>
  /\ me = 1
  /\ parked = NoInstance
  /\ day2 = NoDay2
  /\ wide = NoWide
  /\ NoOthers

(***************************************************************************)
(* The loop of cpu: one action per case of the switch.                     *)
(***************************************************************************)
\* const instruction = get(ptr)
Fetched == get(mem, ptr)

\* const opcode = instruction % 100
Decode(ins) == JsRem(ins, 100)

\* the cases of the switch
Supported == {1, 2, 3, 4, 5, 6, 7, 8, 9, 99}

\* the iterations explored for the program loaded
Budget == IF initial \in Examples THEN MaxRun ELSE MaxSteps

Dispatch(op) ==
  /\ status = "Running"
  /\ steps < Budget
  /\ Fetched.ok
  /\ Decode(Fetched.val) = op
  /\ instruction' = Fetched.val
  /\ opcode' = op
  /\ steps' = steps + 1
  /\ path' = Append(path, <<ptr, rbase>>)
  /\ UNCHANGED <<initial, run, first, me, parked, day2, wide, others, typed>>

\* a throw that is swallowed: the error is noted and the loop goes on
ThrowKeepsRunning(e) ==
  /\ fault' = e
  /\ UNCHANGED <<mem, props, ptr, rbase, status, out, prompts, consumed, rl>>

\* a throw raised after the pointer has moved past the opcode
ThrowAdvances(e) ==
  /\ status' = "Faulted"
  /\ fault' = e
  /\ ptr' = ptr + 1
  /\ UNCHANGED <<mem, props, rbase, out, prompts, consumed, rl>>

\* an invariant() or getMode() throws: the promise of cpu rejects
Throw(e) ==
  /\ status' = "Faulted"
  /\ fault' = e
  /\ UNCHANGED <<mem, props, ptr, rbase, out, prompts, consumed, rl>>

\* the value cases 1, 2, 7, 8 put
Result(op, a, b) ==
  CASE op = 1 -> Sum(a, b)
    [] op = 2 -> Product(a, b)
    [] op = 7 -> LessThan(a, b)
    [] op = 8 -> Equal(a, b)

\* cases 1, 2, 7, 8: read(0), read(1), put(2, result), ptr += 4
Binary(op) ==
  /\ Dispatch(op)
  /\ LET a == read(mem, ptr, rbase, Fetched.val, 0)
         b == read(mem, ptr, rbase, Fetched.val, 1)
         w == put(mem, props, ptr, rbase, Fetched.val, 2, Result(op, a.val, b.val))
     IN  IF ~a.ok THEN Throw(a.err)
         ELSE IF ~b.ok THEN Throw(b.err)
         ELSE IF ~w.ok THEN Throw(w.err)
         ELSE /\ mem' = w.mem
              /\ props' = w.props
              /\ ptr' = ptr + 4
              /\ UNCHANGED <<rbase, status, fault, out, prompts, consumed, rl>>

Add == Binary(1)

Multiply == Binary(2)

Less == Binary(7)

Equals == Binary(8)

\* rl.question(query, cb): readline keeps one pending callback; a question put
\* while one is pending only prints the prompt again and its callback is lost
question(r, who) ==
  IF r.questionCallback = 0 THEN [r EXCEPT !.questionCallback = who] ELSE r

\* an input that advances the pointer before it suspends
AskInputAdvancesEarly ==
  /\ Dispatch(3)
  /\ status' = "AwaitingInput"
  /\ prompts' = prompts + 1
  /\ rl' = question(rl, me)
  /\ ptr' = ptr + 2
  /\ UNCHANGED <<mem, props, rbase, fault, out, consumed>>

\* case 3, up to the await: askNumber() issues the prompt
AskInput ==
  /\ Dispatch(3)
  /\ status' = "AwaitingInput"
  /\ prompts' = prompts + 1
  /\ rl' = question(rl, me)
  /\ UNCHANGED <<mem, props, ptr, rbase, fault, out, consumed>>

\* the second call of cpu is given the numbers the first call was given
SameAnswer(n) ==
  /\ Len(consumed) < Len(first.consumed)
  /\ n = first.consumed[Len(consumed) + 1]

\* an answer is typed, and kept in `typed`: askNumber asks again on NaN,
\* else cpu resumes with
\* put(0, answer); ptr += 2
Answer(s) ==
  /\ status = "AwaitingInput"
  /\ rl.questionCallback = me
  /\ ~rl.closed
  /\ LET n == Number(s)
         w == put(mem, props, ptr, rbase, instruction, 0, n.val)
     IN  IF n.nan
         THEN /\ prompts < MaxPrompts
              /\ prompts' = prompts + 1
              /\ UNCHANGED <<mem, props, ptr, rbase, status, fault, out, consumed, rl>>
         ELSE /\ run = 2 => SameAnswer(n.val)
              /\ rl' = [rl EXCEPT !.questionCallback = 0]
              /\ consumed' = Append(consumed, n.val)
              /\ IF ~w.ok
                 THEN /\ status' = "Faulted"
                      /\ fault' = w.err
                      /\ UNCHANGED <<mem, props, ptr, rbase, out, prompts>>
                 ELSE /\ mem' = w.mem
                      /\ props' = w.props
                      /\ ptr' = ptr + 2
                      /\ status' = "Running"
                      /\ UNCHANGED <<rbase, fault, out, prompts>>
  /\ typed' = Append(typed, s)
  /\ UNCHANGED <<instruction, opcode, steps, path, initial, run, first,
                 me, parked, day2, wide, others>>

InputArrives == \E s \in Answers : Answer(s)

\* an output that advances like a three-operand instruction
OutputSkipsFour ==
  /\ Dispatch(4)
  /\ LET a == read(mem, ptr, rbase, Fetched.val, 0)
     IN  IF ~a.ok THEN Throw(a.err)
         ELSE /\ out' = Append(out, a.val)
              /\ ptr' = ptr + 4
              /\ UNCHANGED <<mem, props, rbase, status, fault, prompts, consumed, rl>>

\* an output whose value overtakes the values already emitted
OutputPrepends ==
  /\ Dispatch(4)
  /\ LET a == read(mem, ptr, rbase, Fetched.val, 0)
     IN  IF ~a.ok THEN Throw(a.err)
         ELSE /\ out' = <<a.val>> \o out
              /\ ptr' = ptr + 2
              /\ UNCHANGED <<mem, props, rbase, status, fault, prompts, consumed, rl>>

\* an output that may lose its value on the way to the console
OutputMayDrop ==
  /\ Dispatch(4)
  /\ LET a == read(mem, ptr, rbase, Fetched.val, 0)
     IN  IF ~a.ok THEN Throw(a.err)
         ELSE /\ out' \in {Append(out, a.val), out}
              /\ ptr' = ptr + 2
              /\ UNCHANGED <<mem, props, rbase, status, fault, prompts, consumed, rl>>

\* case 4: console.log('out: ' + read(0)); ptr += 2
Output ==
  /\ Dispatch(4)
  /\ LET a == read(mem, ptr, rbase, Fetched.val, 0)
     IN  IF ~a.ok THEN Throw(a.err)
         ELSE /\ out' = Append(out, a.val)
              /\ ptr' = ptr + 2
              /\ UNCHANGED <<mem, props, rbase, status, fault, prompts, consumed, rl>>

\* a truth test that takes negative values for false
IsPositive(cmp) == cmp > 0

IsTrue(cmp) == cmp # 0
IsFalse(cmp) == cmp = 0

\* the condition of the jump of case op
Taken(op, cmp) == IF op = 5 THEN IsTrue(cmp) ELSE IsFalse(cmp)

\* cases 5 and 6: ptr = taken(cmp) ? read(1) : ptr + 3
Jump(op) ==
  /\ Dispatch(op)
  /\ LET cmp    == read(mem, ptr, rbase, Fetched.val, 0)
         target == read(mem, ptr, rbase, Fetched.val, 1)
     IN  IF ~cmp.ok THEN Throw(cmp.err)
         ELSE IF ~Taken(op, cmp.val)
         THEN /\ ptr' = ptr + 3
              /\ UNCHANGED <<mem, props, rbase, status, fault, out, prompts, consumed, rl>>
         ELSE IF ~target.ok THEN Throw(target.err)
         ELSE /\ ptr' = target.val
              /\ UNCHANGED <<mem, props, rbase, status, fault, out, prompts, consumed, rl>>

JumpIfTrue == Jump(5)

JumpIfFalse == Jump(6)

\* a base that is replaced instead of adjusted
BaseReplaced(rb, a) == a

\* rbase += read(0)
NewBase(rb, a) == rb + a

\* an adjustment of the base that awaits something before the next fetch
AdjustBaseYields ==
  /\ Dispatch(9)
  /\ LET a == read(mem, ptr, rbase, Fetched.val, 0)
     IN  IF ~a.ok THEN Throw(a.err)
         ELSE /\ rbase' = NewBase(rbase, a.val)
              /\ ptr' = ptr + 2
              /\ status' = "AwaitingInput"
              /\ UNCHANGED <<mem, props, fault, out, prompts, consumed, rl>>

\* case 9: rbase += read(0); ptr += 2
AdjustBase ==
  /\ Dispatch(9)
  /\ LET a == read(mem, ptr, rbase, Fetched.val, 0)
     IN  IF ~a.ok THEN Throw(a.err)
         ELSE /\ rbase' = NewBase(rbase, a.val)
              /\ ptr' = ptr + 2
              /\ UNCHANGED <<mem, props, status, fault, out, prompts, consumed, rl>>

\* a halt that only leaves the switch: the loop goes on with the next cell
HaltFallsThrough ==
  /\ Dispatch(99)
  /\ ptr' = ptr + 1
  /\ UNCHANGED <<mem, props, rbase, status, fault, out, prompts, consumed, rl>>

\* case 99: return
Halt ==
  /\ Dispatch(99)
  /\ status' = "Halted"
  /\ UNCHANGED <<mem, props, ptr, rbase, fault, out, prompts, consumed, rl>>

\* a default case that returns to the caller as a halt does
UnknownOpcodeReturns ==
  /\ Fetched.ok
  /\ Decode(Fetched.val) \notin Supported
  /\ Dispatch(Decode(Fetched.val))
  /\ status' = "Halted"
  /\ UNCHANGED <<mem, props, ptr, rbase, fault, out, prompts, consumed, rl>>

\* default: process.exit(2)
UnknownOpcode ==
  /\ Fetched.ok
  /\ Decode(Fetched.val) \notin Supported
  /\ Dispatch(Decode(Fetched.val))
  /\ status' = "Exited"
  /\ fault' = "1202 - unknown opcode"
  /\ UNCHANGED <<mem, props, ptr, rbase, out, prompts, consumed, rl>>

\* get(ptr) throws on a negative instruction pointer
FetchFault ==
  /\ status = "Running"
  /\ steps < Budget
  /\ ~Fetched.ok
  /\ steps' = steps + 1
  /\ path' = Append(path, <<ptr, rbase>>)
  /\ Throw(Fetched.err)
  /\ UNCHANGED <<instruction, opcode, initial, run, first, me, parked, day2, wide, others, typed>>

\* stdin ends while a question is pending: readline closes, the callback of
\* ask() is never called and its promise neither resolves nor rejects
Close ==
  /\ status = "AwaitingInput"
  /\ ~rl.closed
  /\ rl' = [rl EXCEPT !.closed = TRUE]
  /\ UNCHANGED <<mem, props, ptr, rbase, status, fault, instruction, opcode,
                 out, prompts, consumed, steps, path, initial, run, first,
                 me, parked, day2, wide, others, typed>>

Next ==
  \/ Add
  \/ Multiply
  \/ AskInput
  \/ InputArrives
  \/ Output
  \/ JumpIfTrue
  \/ JumpIfFalse
  \/ Less
  \/ Equals
  \/ AdjustBase
  \/ Halt
  \/ UnknownOpcode
  \/ FetchFault
  \/ Close

Spec == Init /\ [][Next]_vars

\* the same steps, when whoever sits at the prompt does not withhold a
\* numeric answer for ever
SpecAnswered == Init /\ [][Next]_vars /\ WF_vars(\E s \in Answers : ~Number(s).nan /\ Answer(s))

(***************************************************************************)
(* Two calls of cpu: when the first call has halted, cpu is called again   *)
(* with the program the first call was given.                              *)
(***************************************************************************)
Restart ==
  /\ run = 1
  /\ status = "Halted"
  /\ first' = Ended(mem, props, ptr, rbase, out, consumed, path)
  /\ run' = 2
  /\ mem' = initial
  /\ props' = << >>
  /\ ptr' = 0
  /\ rbase' = 0
  /\ status' = "Running"
  /\ fault' = "none"
  /\ instruction' = 0
  /\ opcode' = 0
  /\ out' = << >>
  /\ prompts' = 0
  /\ consumed' = << >>
  /\ steps' = 0
  /\ path' = << >>
  /\ typed' = << >>
  /\ UNCHANGED <<initial, rl, me, parked, day2, wide, others>>

NextTwice ==
  \/ Add
  \/ Multiply
  \/ AskInput
  \/ InputArrives
  \/ Output
  \/ JumpIfTrue
  \/ JumpIfFalse
  \/ Less
  \/ Equals
  \/ AdjustBase
  \/ Halt
  \/ UnknownOpcode
  \/ FetchFault
  \/ Close
  \/ Restart

SpecTwice == Init /\ [][NextTwice]_vars

(***************************************************************************)
(* Two calls of cpu on distinct memories in one process, both with the     *)
(* default input source.  JavaScript runs one call at a time: the other    *)
(* call gets to run only when the executing one awaits its input or has    *)
(* ended.  The calls have their own mem, ptr and rbase; the readline       *)
(* interface rl of askInput.js is created once per process.                *)
(***************************************************************************)
\* the programs of the first call: one instruction of each kind, and the
\* programs with several inputs and outputs
\* the programs of the second call: 3,5,4,5,99,0 and 104,7,3,0,99
InitPair ==
  /\ mem \in IOPrograms \cup {<<ins, 1, 1, 1, 99>> : ins \in Instructions}
                        \cup {<<1105, 1, -2, 1, 99>>}
  /\ props = << >>
  /\ ptr = 0
  /\ rbase = 0
  /\ status = "Running"
  /\ fault = "none"
  /\ instruction = 0
  /\ opcode = 0
  /\ out = << >>
  /\ prompts = 0
  /\ consumed = << >>
  /\ steps = 0
  /\ path = << >>
  /\ initial = mem
  /\ run = 1
  /\ first = NoRun
  /\ rl = [questionCallback |-> 0, closed |-> FALSE]
  /\ typed = << >>
  /\ me = 1
  /\ parked \in {Instance(2, m) : m \in {<<3, 5, 4, 5, 99, 0>>, <<104, 7, 3, 0, 99>>}}
  /\ day2 = NoDay2
  /\ wide = NoWide
  /\ NoOthers

\* the executing call has yielded or ended, and the other call can go on:
\* it has not started yet, or the line typed answers its question
Switch ==
  /\ status \in {"AwaitingInput", "Halted", "Faulted"}
  /\ \/ parked.status = "Running"
     \/ /\ parked.status = "AwaitingInput"
        /\ rl.questionCallback = parked.me
        /\ ~rl.closed
  /\ parked' = [me |-> me, mem |-> mem, props |-> props, ptr |-> ptr,
                rbase |-> rbase, status |-> status, fault |-> fault,
                instruction |-> instruction, opcode |-> opcode, out |-> out,
                prompts |-> prompts, consumed |-> consumed, steps |-> steps,
                path |-> path, initial |-> initial]
  /\ me' = parked.me
  /\ mem' = parked.mem
  /\ props' = parked.props
  /\ ptr' = parked.ptr
  /\ rbase' = parked.rbase
  /\ status' = parked.status
  /\ fault' = parked.fault
  /\ instruction' = parked.instruction
  /\ opcode' = parked.opcode
  /\ out' = parked.out
  /\ prompts' = parked.prompts
  /\ consumed' = parked.consumed
  /\ steps' = parked.steps
  /\ path' = parked.path
  /\ initial' = parked.initial
  /\ UNCHANGED <<run, first, rl, day2, wide, others, typed>>

NextPair ==
  \/ Add
  \/ Multiply
  \/ AskInput
  \/ InputArrives
  \/ Output
  \/ JumpIfTrue
  \/ JumpIfFalse
  \/ Less
  \/ Equals
  \/ AdjustBase
  \/ Halt
  \/ UnknownOpcode
  \/ FetchFault
  \/ Close
  \/ Switch

SpecPair == InitPair /\ [][NextPair]_vars

(***************************************************************************)
(* run(input) of puzzle-02-part1.js: the first version of the machine,     *)
(* with add, multiply and halt only, every operand an address.  cpu calls  *)
(* itself for the next instruction: `depth` counts the calls of cpu that   *)
(* have not returned.  Texts are sequences of characters.                  *)
(***************************************************************************)
\* the variables of the machine of lib/intcode.js
machine == <<mem, props, ptr, rbase, status, fault, instruction, opcode,
             out, prompts, consumed, steps, path, initial, run, first,
             rl, me, parked, typed>>

\* input.split(','): the pieces of text between the commas
RECURSIVE split(_)
split(text) ==
  IF \A i \in 1 .. Len(text) : text[i] # ","
  THEN <<text>>
  ELSE LET i == CHOOSE k \in 1 .. Len(text) :
                  text[k] = "," /\ \A j \in 1 .. k - 1 : text[j] # ","
       IN  <<SubSeq(text, 1, i - 1)>> \o split(SubSeq(text, i + 1, Len(text)))

\* .map(Number); every piece of the texts considered is a number
parse(text) == LET pieces == split(text)
               IN  [i \in 1 .. Len(pieces) |-> Number(pieces[i]).val]

\* the decimal digits of a natural number
RECURSIVE digitsOf(_)
digitsOf(n) ==
  IF n < 10 THEN <<Digits[n + 1]>>
  ELSE digitsOf(n \div 10) \o <<Digits[(n % 10) + 1]>>

\* String(n) of an integer
toString(n) == IF n < 0 THEN <<"-">> \o digitsOf(0 - n) ELSE digitsOf(n)

\* mem.join(',')
RECURSIVE join(_)
join(m) ==
  IF Len(m) = 0 THEN << >>
  ELSE IF Len(m) = 1 THEN toString(m[1])
  ELSE toString(m[1]) \o <<",">> \o join(Tail(m))

\* a pointer that moves past the opcode and two operands only
nextptrSkipsThree(p) == p + 3

\* const nextptr = ptr + 4
nextptr(p) == p + 4

\* mem[i] of a JavaScript array of numbers: undefined off the array
defined(m, i) == i >= 0 /\ i < Len(m)

\* the operands tried: on and off the array
Day2Operands == {0, 4, 5}

\* the examples of puzzle-02-part1.test.js, and further programs: one or two
\* instructions with operands on and off the array, opcodes known and unknown
Day2Inputs ==
  LET Day2Examples ==
        { <<"1", ",", "0", ",", "0", ",", "0", ",", "9", "9">>,
          <<"2", ",", "3", ",", "0", ",", "3", ",", "9", "9">>,
          <<"2", ",", "4", ",", "4", ",", "5", ",", "9", "9", ",", "0">>,
          <<"1", ",", "1", ",", "1", ",", "4", ",", "9", "9", ",", "5", ",", "6",
            ",", "0", ",", "9", "9">> }
      Day2Targets == {0, 3, 4, 8, 9}
      Day2Opcodes == {1, 2, 7, 99}
      Day2Programs ==
        {<<op, a, b, c, 99, 3>> :
           op \in Day2Opcodes, a \in Day2Operands, b \in Day2Operands,
           c \in Day2Targets}
        \cup {<<1, a, b, 5, op, 5, 5, c, 99>> :
                op \in Day2Opcodes, a \in Day2Operands, b \in Day2Operands,
                c \in Day2Targets}
  IN  Day2Examples \cup {join(m) : m \in Day2Programs}

InitDay2 ==
  /\ mem = << >>
  /\ props = << >>
  /\ ptr = 0
  /\ rbase = 0
  /\ status = "None"
  /\ fault = "none"
  /\ instruction = 0
  /\ opcode = 0
  /\ out = << >>
  /\ prompts = 0
  /\ consumed = << >>
  /\ steps = 0
  /\ path = << >>
  /\ initial = << >>
  /\ run = 1
  /\ first = NoRun
  /\ rl = [questionCallback |-> 0, closed |-> FALSE]
  /\ typed = << >>
  /\ me = 1
  /\ parked = NoInstance
  /\ day2 \in {[NoDay2 EXCEPT !.input = text, !.status = "Called"] : text \in Day2Inputs}
  /\ wide = NoWide
  /\ NoOthers

\* const mem = input.split(',').map(Number); cpu(mem, 0)
Day2Load ==
  /\ day2.status = "Called"
  /\ day2' = [day2 EXCEPT !.mem = parse(day2.input), !.ptr = 0, !.depth = 1,
                           !.status = "Running"]
  /\ UNCHANGED <<machine, wide, others>>

\* case 1, case 2: mem[addr3] = a + b (a * b); return cpu(mem, nextptr).
\* When an operand is off the array the result is NaN, and a target off the
\* array leaves holes or a property: the memory is no longer a sequence of
\* integers and the run is not followed further.
Day2Arithmetic(op) ==
  /\ day2.status = "Running"
  /\ defined(day2.mem, day2.ptr)
  /\ day2.mem[day2.ptr + 1] = op
  /\ LET m     == day2.mem
         p     == day2.ptr
         ok    == /\ defined(m, p + 3)
                  /\ defined(m, m[p + 2]) /\ defined(m, m[p + 3])
                  /\ defined(m, m[p + 4])
         a     == m[m[p + 2] + 1]
         b     == m[m[p + 3] + 1]
         r     == IF op = 1 THEN a + b ELSE a * b
     IN  IF ~ok
         THEN day2' = [day2 EXCEPT !.status = "NotIntegers"]
         ELSE day2' = [day2 EXCEPT !.mem = [m EXCEPT ![m[p + 4] + 1] = r],
                                   !.ptr = nextptr(p),
                                   !.depth = day2.depth + 1]
  /\ UNCHANGED <<machine, wide, others>>

\* case 99: return mem, through every pending call of cpu; run returns
\* the joined memory
Day2Halt ==
  /\ day2.status = "Running"
  /\ defined(day2.mem, day2.ptr)
  /\ day2.mem[day2.ptr + 1] = 99
  /\ day2' = [day2 EXCEPT !.status = "Returned", !.depth = 0,
                           !.output = join(day2.mem)]
  /\ UNCHANGED <<machine, wide, others>>

\* default (an unknown opcode, or no cell under the pointer): process.exit(2)
Day2Exit ==
  /\ day2.status = "Running"
  /\ \/ ~defined(day2.mem, day2.ptr)
     \/ day2.mem[day2.ptr + 1] \notin {1, 2, 99}
  /\ day2' = [day2 EXCEPT !.status = "Exited"]
  /\ UNCHANGED <<machine, wide, others>>

NextDay2 ==
  \/ Day2Load
  \/ Day2Arithmetic(1)
  \/ Day2Arithmetic(2)
  \/ Day2Halt
  \/ Day2Exit

SpecDay2 == InitDay2 /\ [][NextDay2]_vars

(***************************************************************************)
(* The numbers of the machine are JavaScript doubles.  To follow values    *)
(* that are large, the cases 2, 4 and 99 of cpu are modelled a second time *)
(* over numbers written as sequences of decimal digits (most significant   *)
(* first, no leading zero), with the rounding of a double: an integer is   *)
(* kept to 53 significant bits, nearest value, ties to even.  Operands are *)
(* Positional or Immediate; every other case is left to the model above.   *)
(***************************************************************************)
Base == 10000

Reverse(q) == [i \in 1 .. Len(q) |-> q[Len(q) + 1 - i]]

\* a number is a sequence of limbs of four decimal digits, least significant
\* first, without zero limbs at its high end
Trim(ls) ==
  LET used == {i \in 1 .. Len(ls) : ls[i] # 0}
      top  == IF used = {} THEN 1 ELSE CHOOSE i \in used : \A k \in used : k <= i
  IN  SubSeq(ls, 1, top)

RECURSIVE AddLimbs(_, _, _)
AddLimbs(a, b, carry) ==
  IF Len(a) = 0 /\ Len(b) = 0
  THEN IF carry = 0 THEN << >> ELSE <<carry>>
  ELSE LET x == IF Len(a) = 0 THEN 0 ELSE a[1]
           y == IF Len(b) = 0 THEN 0 ELSE b[1]
           t == x + y + carry
       IN  <<t % Base>> \o AddLimbs(IF Len(a) = 0 THEN a ELSE Tail(a),
                                    IF Len(b) = 0 THEN b ELSE Tail(b),
                                    t \div Base)

BigAdd(a, b) == Trim(AddLimbs(a, b, 0))

RECURSIVE TimesLimb(_, _, _)
TimesLimb(a, d, carry) ==
  IF Len(a) = 0
  THEN IF carry = 0 THEN << >> ELSE <<carry>>
  ELSE LET t == a[1] * d + carry
       IN  <<t % Base>> \o TimesLimb(Tail(a), d, t \div Base)

\* a times the limbs of b, taken from the most significant one
RECURSIVE MulAcc(_, _, _)
MulAcc(a, b, acc) ==
  IF Len(b) = 0 THEN acc
  ELSE MulAcc(a, SubSeq(b, 1, Len(b) - 1),
              BigAdd(Trim(<<0>> \o acc), Trim(TimesLimb(a, b[Len(b)], 0))))

\* a < b: a is shorter, or of the same length and smaller at the most
\* significant limb that differs
BigLess(a, b) ==
  \/ Len(a) < Len(b)
  \/ /\ Len(a) = Len(b)
     /\ \E i \in 1 .. Len(a) :
          a[i] < b[i] /\ \A k \in i + 1 .. Len(a) : a[k] = b[k]

\* halving, from the most significant limb down
RECURSIVE HalfLimbs(_, _)
HalfLimbs(hs, carry) ==
  IF Len(hs) = 0 THEN << >>
  ELSE LET cur == Base * carry + hs[1]
       IN  <<cur \div 2>> \o HalfLimbs(Tail(hs), cur % 2)

BigHalf(n) ==
  [quot |-> Trim(Reverse(HalfLimbs(Reverse(n), 0))), rem |-> n[1] % 2]

RECURSIVE Doubled(_, _)
Doubled(n, k) == IF k = 0 THEN n ELSE Doubled(BigAdd(n, n), k - 1)

\* n halved until it fits the significand: the quotient, the last bit
\* dropped, whether an earlier bit dropped was set, the number of halvings
RECURSIVE Shifted(_, _, _, _, _)
Shifted(q, guard, sticky, k, limit) ==
  IF BigLess(q, limit) THEN [q |-> q, guard |-> guard, sticky |-> sticky, k |-> k]
  ELSE LET h == BigHalf(q)
       IN  Shifted(h.quot, h.rem, IF guard + sticky > 0 THEN 1 ELSE 0, k + 1, limit)

\* n rounded to the nearest value whose significand is below limit
Rounded(n, limit) ==
  LET s  == Shifted(n, 0, 0, 0, limit)
      up == s.guard = 1 /\ (s.sticky = 1 \/ s.q[1] % 2 = 1)
      m  == IF up THEN BigAdd(s.q, <<1>>) ELSE s.q
  IN  Doubled(m, s.k)

\* 2^40 = 1099511627776 and 2^53 = 9007199254740992
TwoTo40 == <<7776, 1162, 995, 1>>

\* numbers kept to 40 significant bits
toForty(n) == Rounded(n, TwoTo40)

\* the double nearest to the integer n
toDouble(n) == Rounded(n, <<992, 5474, 1992, 9007>>)

\* the decimal digit of weight 10^idx of n
wideDigit(n, idx) ==
  IF idx \div 4 < Len(n)
  THEN (n[(idx \div 4) + 1] \div Pow10(idx % 4)) % 10
  ELSE 0

\* the number of decimal digits of n
wideLength(n) ==
  LET top == n[Len(n)]
  IN  4 * (Len(n) - 1)
        + (IF top >= 1000 THEN 4 ELSE IF top >= 100 THEN 3 ELSE IF top >= 10 THEN 2 ELSE 1)

\* input.split(',').map(Number), of pieces made of digits: the limbs
\* written by the digits of each piece, rounded to a double
WideParse(text) ==
  LET pieces == split(text)
      fromDigits(piece) ==
        Trim([j \in 1 .. ((Len(piece) + 3) \div 4) |->
                LET hi == Len(piece) - 4 * (j - 1)
                    lo == IF hi > 4 THEN hi - 3 ELSE 1
                IN  Decimal(SubSeq(piece, lo, hi))])
  IN  [i \in 1 .. Len(pieces) |-> toDouble(fromDigits(pieces[i]))]

\* 'out: ' + n, without the 'out: ': the digits of an integer, which is
\* the text of every value below 10^21, and no run here reaches 10^21
WideString(n) ==
  LET len == wideLength(n)
  IN  [i \in 1 .. len |-> Digits[wideDigit(n, len - i) + 1]]

\* the value of a number below 10000, used as an address
small(n) == n[1]

\* get(addr)
wideGet(m, addr) == IF addr < Len(m) THEN m[addr + 1] ELSE <<0>>

\* read(idx) of an operand that is Immediate (1) or Positional (0)
wideRead(m, p, idx) ==
  LET raw == wideGet(m, p + idx + 1)
  IN  IF wideDigit(m[p + 1], idx + 2) = 1 THEN raw ELSE wideGet(m, small(raw))

\* put(idx, value) of a Positional operand, growing the array with zeros
widePut(m, p, idx, value) ==
  LET outaddr == small(wideGet(m, p + idx + 1))
      grown   == [i \in 1 .. (IF outaddr < Len(m) THEN Len(m) ELSE outaddr + 1) |->
                    IF i <= Len(m) THEN m[i] ELSE <<0>>]
  IN  [grown EXCEPT ![outaddr + 1] = value]

\* the modes of the operands read are 0 or 1, the cells used as addresses
\* are below 1000, the instruction has no further mode digit
wideModes(m, p, reads, writes) ==
  /\ \A i \in reads : \/ wideDigit(m[p + 1], i + 2) = 1
                       \/ /\ wideDigit(m[p + 1], i + 2) = 0
                          /\ wideLength(wideGet(m, p + i + 1)) <= 3
  /\ \A i \in writes : /\ wideDigit(m[p + 1], i + 2) = 0
                        /\ wideLength(wideGet(m, p + i + 1)) <= 3
  /\ wideLength(m[p + 1]) <= 5

\* a product kept to 40 significant bits
wideProductShort(a, b) == toForty(MulAcc(a, b, <<0>>))

\* a * b of two doubles: the exact product, rounded
wideProduct(a, b) == toDouble(MulAcc(a, b, <<0>>))

\* 1102,a,b,7,4,7,99,0 of the large values a, b tried and 104,n,99 of the
\* literals n tried, as texts
WideInputs ==
  LET WideVals ==
        { <<"3">>,
          <<"3", "4", "9", "1", "5", "1", "9", "2">>,
          <<"6", "7", "1", "0", "8", "8", "6", "5">>,
          <<"9", "4", "9", "0", "6", "2", "6", "7">>,
          <<"1", "3", "4", "2", "1", "7", "7", "2", "9">> }
      WideLiterals ==
        { <<"7">>,
          <<"1", "1", "2", "5", "8", "9", "9", "9", "0", "6", "8", "4", "2", "6", "2",
            "4">>,
          <<"9", "0", "0", "7", "1", "9", "9", "2", "5", "4", "7", "4", "0", "9", "9",
            "3">> }
  IN  { <<"1", "1", "0", "2", ",">> \o a \o <<",">> \o b
          \o <<",", "7", ",", "4", ",", "7", ",", "9", "9", ",", "0">> :
          a \in WideVals, b \in WideVals }
      \cup { <<"1", "0", "4", ",">> \o n \o <<",", "9", "9">> : n \in WideLiterals }

InitWide ==
  /\ mem = << >>
  /\ props = << >>
  /\ ptr = 0
  /\ rbase = 0
  /\ status = "None"
  /\ fault = "none"
  /\ instruction = 0
  /\ opcode = 0
  /\ out = << >>
  /\ prompts = 0
  /\ consumed = << >>
  /\ steps = 0
  /\ path = << >>
  /\ initial = << >>
  /\ run = 1
  /\ first = NoRun
  /\ rl = [questionCallback |-> 0, closed |-> FALSE]
  /\ typed = << >>
  /\ me = 1
  /\ parked = NoInstance
  /\ day2 = NoDay2
  /\ wide \in {[NoWide EXCEPT !.input = text, !.status = "Called"] : text \in WideInputs}
  /\ NoOthers

\* const mem = input.split(',').map(Number); cpu(mem)
WideLoad ==
  /\ wide.status = "Called"
  /\ wide' = [wide EXCEPT !.mem = WideParse(wide.input), !.status = "Running"]
  /\ UNCHANGED <<machine, day2, others>>

WideFetch(op) ==
  /\ wide.status = "Running"
  /\ wide.ptr < Len(wide.mem)
  /\ wide.mem[wide.ptr + 1][1] % 100 = op   \* instruction % 100

\* case 2: put(2, read(0) * read(1)); ptr += 4
WideMultiply ==
  /\ WideFetch(2)
  /\ wideModes(wide.mem, wide.ptr, {0, 1}, {2})
  /\ LET a == wideRead(wide.mem, wide.ptr, 0)
         b == wideRead(wide.mem, wide.ptr, 1)
     IN  wide' = [wide EXCEPT
                    !.mem = widePut(wide.mem, wide.ptr, 2, wideProduct(a, b)),
                    !.ptr = wide.ptr + 4]
  /\ UNCHANGED <<machine, day2, others>>

\* case 4: console.log('out: ' + read(0)); ptr += 2
WideOutput ==
  /\ WideFetch(4)
  /\ wideModes(wide.mem, wide.ptr, {0}, {})
  /\ wide' = [wide EXCEPT
                !.out = Append(wide.out, WideString(wideRead(wide.mem, wide.ptr, 0))),
                !.ptr = wide.ptr + 2]
  /\ UNCHANGED <<machine, day2, others>>

\* case 99: return
WideHalt ==
  /\ WideFetch(99)
  /\ wide' = [wide EXCEPT !.status = "Halted"]
  /\ UNCHANGED <<machine, day2, others>>

NextWide ==
  \/ WideLoad
  \/ WideMultiply
  \/ WideOutput
  \/ WideHalt

SpecWide == InitWide /\ [][NextWide]_vars

(***************************************************************************)
(* Vocabulary of the properties: the instruction about to be executed and  *)
(* its operands, as the specification of the machine describes them        *)
(* (decimal digits of the instruction, cells of the memory), stated        *)
(* without the helpers of cpu.                                             *)
(***************************************************************************)
\* the value held at address a: the cell, or 0 beyond the extent
CellAt(m, a) == IF a >= 0 /\ a < Len(m) THEN m[a + 1] ELSE 0

\* the decimal weight of the mode digit of operand i
Weight(i) == CASE i = 0 -> 100 [] i = 1 -> 1000 [] i = 2 -> 10000

CurIns == CellAt(mem, ptr)
CurOp == CurIns % 100
ModeOf(i) == (CurIns \div Weight(i)) % 10
RawOf(i) == CellAt(mem, ptr + i + 1)
AddrOf(i) == IF ModeOf(i) = 2 THEN rbase + RawOf(i) ELSE RawOf(i)
ValueOf(i) == IF ModeOf(i) = 1 THEN RawOf(i) ELSE CellAt(mem, AddrOf(i))

\* operand i can be read / written without any fault of the specification
Readable(i) == ModeOf(i) = 1 \/ (ModeOf(i) \in {0, 2} /\ AddrOf(i) >= 0)
Writable(i) == ModeOf(i) \in {0, 2} /\ AddrOf(i) >= 0

\* the machine is about to execute an instruction with opcode op
Executing(op) ==
  status = "Running" /\ ptr >= 0 /\ CurIns >= 0 /\ CurOp = op

\* the last instruction executed had opcode op and completed normally
Completed(op) == steps > 0 /\ opcode = op /\ status = "Running"

(***************************************************************************)
(* C1: an add (opcode 1) or multiply (opcode 2) whose operands resolve     *)
(* without fault stores a + b (resp. a * b) at the address designated by   *)
(* operand 2, a and b being operands 0 and 1 read under their own modes,   *)
(* advances the instruction pointer by exactly 4 and leaves the relative   *)
(* base unchanged.                                                         *)
(***************************************************************************)
C1_Arithmetic(op, r) ==
  (Executing(op) /\ Readable(0) /\ Readable(1) /\ Writable(2))
    => /\ status' = "Running"
       /\ CellAt(mem', AddrOf(2)) = r
       /\ Len(mem') > AddrOf(2)
       /\ ptr' = ptr + 4
       /\ rbase' = rbase

C1_AddMultiply ==
  [][/\ C1_Arithmetic(1, ValueOf(0) + ValueOf(1))
     /\ C1_Arithmetic(2, ValueOf(0) * ValueOf(1))]_vars

\* a multiply with a relative destination has completed under a moved base
C1_Witness ==
  /\ Completed(2)
  /\ instruction = 21202
  /\ rbase = 3
  /\ ptr = 6

(***************************************************************************)
(* C2: reading operand idx of the instruction at ptr takes the raw value v *)
(* stored at ptr + idx + 1 and returns v itself in Immediate mode, the     *)
(* value at address v in Positional mode and the value at address          *)
(* relBase + v in Relative mode, whatever ptr, idx, relBase and memory.    *)
(***************************************************************************)
C2_ReadOperand ==
  (status = "Running" /\ ptr >= 0 /\ CurIns >= 0)
    => \A idx \in 0 .. 2 :
         LET v == CellAt(mem, ptr + idx + 1)
             r == read(mem, ptr, rbase, CurIns, idx)
         IN  /\ (ModeOf(idx) = 1) => (r.ok /\ r.val = v)
             /\ (ModeOf(idx) = 0 /\ v >= 0) => (r.ok /\ r.val = CellAt(mem, v))
             /\ (ModeOf(idx) = 2 /\ rbase + v >= 0)
                  => (r.ok /\ r.val = CellAt(mem, rbase + v))

\* an output read its operand in Relative mode under a moved base, from a
\* cell that does not hold 0
C2_Witness ==
  /\ Completed(4)
  /\ instruction = 204
  /\ rbase = 3
  /\ mem[4] = -2
  /\ out = <<3>>

(***************************************************************************)
(* C3: writing x through operand idx of the instruction at ptr, with raw   *)
(* value v at ptr + idx + 1, stores x at address v in Positional mode and  *)
(* at address relBase + v in Relative mode (the address being a valid one, *)
(* >= 0); a read of that address after the write returns x.                *)
(***************************************************************************)
\* the step writes x through operand idx
C3_Stores(idx, x) ==
  LET v == CellAt(mem, ptr + idx + 1)
      a == IF ModeOf(idx) = 0 THEN v ELSE rbase + v
  IN  (ModeOf(idx) \in {0, 2} /\ a >= 0)
        => /\ status' = "Running"
           /\ a < Len(mem')
           /\ mem'[a + 1] = x
           /\ get(mem', a) = [ok |-> TRUE, val |-> x, err |-> "none"]

C3_BinaryWrites(op, x) ==
  (Executing(op) /\ Readable(0) /\ Readable(1)) => C3_Stores(2, x)

C3_WriteOperand ==
  [][/\ C3_BinaryWrites(1, ValueOf(0) + ValueOf(1))
     /\ C3_BinaryWrites(2, ValueOf(0) * ValueOf(1))
     /\ C3_BinaryWrites(7, IF ValueOf(0) < ValueOf(1) THEN 1 ELSE 0)
     /\ C3_BinaryWrites(8, IF ValueOf(0) = ValueOf(1) THEN 1 ELSE 0)
     /\ (status = "AwaitingInput" /\ Len(consumed') = Len(consumed) + 1)
          => C3_Stores(0, consumed'[Len(consumed')])]_vars

\* an input value was written through a Relative operand under a moved base
C3_Witness ==
  /\ Completed(3)
  /\ instruction = 203
  /\ rbase = 3
  /\ consumed = <<11>>
  /\ mem = <<109, 3, 203, 1, 11, 7, 99>>

(***************************************************************************)
(* C4: for every non-negative instruction n the opcode is n mod 100 and    *)
(* the mode digit of operand i is the decimal digit of n of weight         *)
(* 10^(i+2), mapped 0 -> Positional, 1 -> Immediate, 2 -> Relative; a      *)
(* missing leading digit decodes as 0 (Positional).  It is stated by the   *)
(* decimal expansion of n, for the cell the instruction pointer is at.     *)
(***************************************************************************)
ModeName(d) == CASE d = 0 -> "POSITIONAL" [] d = 1 -> "IMMEDIATE" [] d = 2 -> "RELATIVE"

\* n = high * 10 * w + d * w + low with low < w: d is the digit of weight w
DigitOfWeight(n, w, d) ==
  LET high == n \div (10 * w)
      low  == n - (n \div w) * w
  IN  /\ low >= 0 /\ low < w
      /\ n = (high * 10 + d) * w + low

C4_DecodesCell(n) ==
  /\ \E q \in {n \div 100} : n = 100 * q + Decode(n) /\ Decode(n) \in 0 .. 99
  /\ \A i \in 0 .. 2 : \A d \in 0 .. 9 :
        DigitOfWeight(n, Weight(i), d)
          => /\ digit(n, i + 2) = d
             /\ d \in {0, 1, 2}
                  => (getMode(n, i).ok /\ getMode(n, i).val = ModeName(d))
             /\ (n < Weight(i)) => (d = 0 /\ getMode(n, i).val = "POSITIONAL")

C4_Decode ==
  (ptr >= 0 /\ CurIns >= 0) => C4_DecodesCell(CurIns)

\* an instruction with a Relative and an Immediate operand and no digit for
\* its third operand (Positional) has been decoded and executed
C4_Witness ==
  /\ Completed(7)
  /\ instruction = 1207
  /\ rbase = 3

(***************************************************************************)
(* Steps that write, in the vocabulary of the specification.               *)
(***************************************************************************)
\* what cases 1, 2, 7, 8 are specified to store
SpecResult(op) ==
  CASE op = 1 -> ValueOf(0) + ValueOf(1)
    [] op = 2 -> ValueOf(0) * ValueOf(1)
    [] op = 7 -> (IF ValueOf(0) < ValueOf(1) THEN 1 ELSE 0)
    [] op = 8 -> (IF ValueOf(0) = ValueOf(1) THEN 1 ELSE 0)

\* a fault-free instruction of case op is about to write through operand 2
BinaryStep(op) ==
  Executing(op) /\ Readable(0) /\ Readable(1) /\ Writable(2)

\* the suspended input instruction receives its value in this step
InputStep ==
  status = "AwaitingInput" /\ Len(consumed') = Len(consumed) + 1 /\ Writable(0)

(***************************************************************************)
(* C5: a memory read at an address a >= 0 at or beyond the current extent  *)
(* returns 0 and never faults, and the read changes neither the extent nor *)
(* any cell.  Observed on the instructions that only read: output (the     *)
(* value read is emitted), adjust-base (it is added to the base) and the   *)
(* fetch of the instruction itself.                                        *)
(***************************************************************************)
BeyondExtent(i) == ModeOf(i) \in {0, 2} /\ AddrOf(i) >= Len(mem)

C5_ReadBeyondExtent ==
  [][/\ (Executing(4) /\ BeyondExtent(0))
          => (status' = "Running" /\ out' = Append(out, 0) /\ mem' = mem)
     /\ (Executing(9) /\ BeyondExtent(0))
          => (status' = "Running" /\ rbase' = rbase /\ mem' = mem)
     /\ (status = "Running" /\ ptr >= Len(mem))
          => (status' # "Faulted" /\ instruction' = 0 /\ mem' = mem)]_vars

\* an output has read address 7 of a memory of 5 cells
C5_Witness ==
  /\ Completed(4)
  /\ instruction = 4
  /\ mem[2] = 7
  /\ Len(mem) = 5
  /\ out = <<0>>

(***************************************************************************)
(* C6: a write to an address a at or beyond the current extent E grows the *)
(* memory so that the new extent is exactly a + 1, every new cell in       *)
(* E .. a-1 holds 0 and cell a holds the written value.                    *)
(***************************************************************************)
C6_Grows(a, x) ==
  (a >= Len(mem))
    => /\ Len(mem') = a + 1
       /\ \A n \in Len(mem) .. (a - 1) : mem'[n + 1] = 0
       /\ mem'[a + 1] = x

C6_WriteGrows ==
  [][/\ \A op \in {1, 2, 7, 8} :
          BinaryStep(op) => C6_Grows(AddrOf(2), SpecResult(op))
     /\ InputStep => C6_Grows(AddrOf(0), consumed'[Len(consumed')])]_vars

\* a product was written at address 7 of a memory of 5 cells
C6_Witness ==
  /\ Completed(2)
  /\ mem = <<1102, -2, 7, 7, 99, 0, 0, -14>>

(***************************************************************************)
(* C7: memory growth is monotonic: over any run the extent never           *)
(* decreases, and after any write (also one beyond the extent) every       *)
(* previously valid address other than the written one holds the value it  *)
(* held before.                                                            *)
(***************************************************************************)
\* address a is the destination of the write of this step
C7_WrittenAt(a) ==
  \/ \E op \in {1, 2, 7, 8} : Executing(op) /\ a = AddrOf(2)
  \/ status = "AwaitingInput" /\ a = AddrOf(0)

C7_Monotonic ==
  [][/\ Len(mem') >= Len(mem)
     /\ \A a \in 0 .. (Len(mem) - 1) :
          (mem'[a + 1] # mem[a + 1]) => C7_WrittenAt(a)]_vars

\* a sum was written beyond the extent and the five old cells are intact
C7_Witness ==
  /\ Completed(1)
  /\ mem = <<1101, 1, 1, 7, 99, 0, 0, 2>>

(***************************************************************************)
(* C8: for opcode 5 (jump-if-true) the instruction pointer becomes the     *)
(* value of operand 1 when operand 0 is non-zero and ptr + 3 otherwise;    *)
(* for opcode 6 (jump-if-false) it becomes the value of operand 1 when     *)
(* operand 0 is zero and ptr + 3 otherwise; neither changes the memory or  *)
(* the relative base.                                                      *)
(***************************************************************************)
C8_JumpsTo(op, taken) ==
  (Executing(op) /\ Readable(0) /\ Readable(1))
    => /\ status' = "Running"
       /\ ptr' = (IF taken THEN ValueOf(1) ELSE ptr + 3)
       /\ mem' = mem
       /\ props' = props
       /\ rbase' = rbase

C8_Jumps ==
  [][/\ C8_JumpsTo(5, ValueOf(0) # 0)
     /\ C8_JumpsTo(6, ValueOf(0) = 0)]_vars

\* a jump-if-true on a negative condition was taken
C8_Witness ==
  /\ Completed(5)
  /\ instruction = 1105
  /\ mem[2] = -2
  /\ ptr = 7

(***************************************************************************)
(* C9: opcode 7 (less-than) and opcode 8 (equals) store 1 at the           *)
(* destination of operand 2 when a < b (resp. a = b) and 0 otherwise, a    *)
(* and b being operands 0 and 1, and advance the instruction pointer by    *)
(* exactly 4; the stored value is always 0 or 1.                           *)
(***************************************************************************)
C9_Compares(op, holds) ==
  BinaryStep(op)
    => /\ status' = "Running"
       /\ AddrOf(2) < Len(mem')
       /\ mem'[AddrOf(2) + 1] = (IF holds THEN 1 ELSE 0)
       /\ mem'[AddrOf(2) + 1] \in {0, 1}
       /\ ptr' = ptr + 4

C9_LessEquals ==
  [][/\ C9_Compares(7, ValueOf(0) < ValueOf(1))
     /\ C9_Compares(8, ValueOf(0) = ValueOf(1))]_vars

\* 7 = 7 stored 1 at address 1
C9_Witness ==
  /\ Completed(8)
  /\ mem = <<1108, 1, 7, 1, 99>>
  /\ ptr = 4

(***************************************************************************)
(* C10: opcode 9 adds the value of operand 0 (read under its mode,         *)
(* possibly negative) to the relative base, advances the pointer by 2 and  *)
(* leaves the memory unchanged; the relative base starts at 0 and no       *)
(* instruction other than opcode 9 ever changes it.                        *)
(***************************************************************************)
C10_RelativeBase ==
  /\ rbase = 0
  /\ [][/\ (Executing(9) /\ Readable(0))
             => /\ status' = "Running"
                /\ rbase' = rbase + ValueOf(0)
                /\ ptr' = ptr + 2
                /\ mem' = mem
                /\ props' = props
        /\ (rbase' # rbase) => Executing(9)]_vars

\* the base was moved to 3 and then by -2
C10_Witness ==
  /\ Completed(9)
  /\ steps = 2
  /\ instruction = 109
  /\ rbase = 1

(***************************************************************************)
(* C11: at opcode 3 the engine is suspended until the input source yields  *)
(* a value; while it is suspended the instruction pointer, the relative    *)
(* base and the memory do not change and nothing is fetched; when the      *)
(* value v arrives it is stored at the destination of operand 0 and the    *)
(* pointer advances by exactly 2.                                          *)
(***************************************************************************)
C11_Frozen ==
  mem' = mem /\ props' = props /\ ptr' = ptr /\ rbase' = rbase /\ consumed' = consumed

C11_Suspension ==
  [][/\ Executing(3) => (status' = "AwaitingInput" /\ C11_Frozen)
     /\ (status = "AwaitingInput" /\ status' = "AwaitingInput") => C11_Frozen
     /\ (status = "AwaitingInput")
          => (steps' = steps /\ instruction' = instruction /\ out' = out)
     /\ (status = "AwaitingInput" /\ status' # "AwaitingInput")
          => Len(consumed') = Len(consumed) + 1
     /\ InputStep
          => /\ status' = "Running"
             /\ CellAt(mem', AddrOf(0)) = consumed'[Len(consumed')]
             /\ Len(mem') > AddrOf(0)
             /\ \A a \in 0 .. (Len(mem) - 1) :
                  (a # AddrOf(0)) => mem'[a + 1] = mem[a + 1]
             /\ ptr' = ptr + 2
             /\ rbase' = rbase]_vars

\* the prompt was answered by a non-number and then by -1, which was stored
\* at address 1 before execution went on at address 2
C11_Witness ==
  /\ Completed(3)
  /\ instruction = 3
  /\ prompts = 2
  /\ consumed = <<-1>>
  /\ mem[2] = -1
  /\ ptr = 2

(***************************************************************************)
(* C12: opcode 4 emits exactly one value to the output sink, the value of  *)
(* operand 0 read under its mode, advances the pointer by exactly 2 and    *)
(* leaves the memory and the relative base unchanged.                      *)
(***************************************************************************)
C12_Output ==
  [][(Executing(4) /\ Readable(0))
       => /\ status' = "Running"
          /\ out' = Append(out, ValueOf(0))
          /\ ptr' = ptr + 2
          /\ mem' = mem
          /\ props' = props
          /\ rbase' = rbase]_vars

\* two immediate outputs were emitted one after the other
C12_Witness ==
  /\ Completed(4)
  /\ mem = <<104, 1, 104, 7, 99>>
  /\ out = <<1, 7>>
  /\ ptr = 4

(***************************************************************************)
(* C13: fetching an instruction whose opcode is 99 ends the run in Halted  *)
(* whatever its mode digits are: the halting step changes neither memory,  *)
(* pointer nor relative base, emits no output and consumes no input, and   *)
(* no instruction is executed after it.                                    *)
(***************************************************************************)
C13_Halt ==
  [][/\ Executing(99)
          => /\ status' = "Halted"
             /\ mem' = mem
             /\ props' = props
             /\ ptr' = ptr
             /\ rbase' = rbase
             /\ out' = out
             /\ consumed' = consumed
             /\ prompts' = prompts
     /\ status # "Halted"]_vars

\* an instruction 399 (opcode 99 under an unsupported mode digit) halted
C13_Witness ==
  /\ status = "Halted"
  /\ instruction = 399
  /\ rbase = 3
  /\ steps = 2

(***************************************************************************)
(* C14: fetching an instruction whose opcode is not one of 1..9 or 99 ends *)
(* the run in Faulted(InvalidOpcode), a fault surfaced to the caller as a  *)
(* typed result and never an uncontrolled termination of the process.      *)
(***************************************************************************)
C14_Unsupported ==
  CurIns < 0 \/ CurIns % 100 \notin {1, 2, 3, 4, 5, 6, 7, 8, 9, 99}

C14_InvalidOpcodeFaults ==
  [][(status = "Running" /\ ptr >= 0 /\ C14_Unsupported)
       => (status' = "Faulted" /\ status' # "Exited")]_vars

(***************************************************************************)
(* C15: an instruction with opcode 5 that carries an unsupported mode      *)
(* digit at any operand position raises InvalidAddressMode, whatever the   *)
(* value of the condition operand.                                         *)
(***************************************************************************)
C15_BadDigit(i) == ModeOf(i) \notin {0, 1, 2}

C15_BadModeFaults ==
  [][(Executing(5) /\ (C15_BadDigit(0) \/ C15_BadDigit(1)))
       => status' = "Faulted"]_vars

(***************************************************************************)
(* C16: an instruction with opcode 1, 2, 3, 7 or 8 whose destination       *)
(* operand is in Immediate mode raises the WriteToImmediate fault and      *)
(* performs no memory write.  (Opcodes 1, 2, 7, 8 read their two sources   *)
(* first: the fault is the write fault when these are readable, and some   *)
(* fault in every case.  Opcode 3 raises it when its value arrives.)       *)
(***************************************************************************)
C16_NoWrite == status' = "Faulted" /\ mem' = mem /\ props' = props /\ ptr' = ptr

C16_Raised == fault' = "Mode cannot be immediate for writes"

C17_NegativeAt(i) == ModeOf(i) \in {0, 2} /\ AddrOf(i) < 0

C17_Faults ==
  /\ status' = "Faulted"
  /\ fault' = "addr must be positive"
  /\ mem' = mem /\ props' = props /\ ptr' = ptr /\ rbase' = rbase /\ out' = out

C17_NegativeRead ==
  [][/\ (status = "Running" /\ ptr < 0) => C17_Faults
     /\ \A op \in {1, 2, 4, 5, 6, 7, 8, 9} :
          (Executing(op) /\ C17_NegativeAt(0)) => C17_Faults
     /\ \A op \in {1, 2, 7, 8} :
          (Executing(op) /\ Readable(0) /\ C17_NegativeAt(1)) => C17_Faults
     /\ (Executing(5) /\ Readable(0) /\ ValueOf(0) # 0 /\ C17_NegativeAt(1))
          => C17_Faults
     /\ (Executing(6) /\ Readable(0) /\ ValueOf(0) = 0 /\ C17_NegativeAt(1))
          => C17_Faults]_vars

\* a jump to -2 was taken and the fetch at -2 was refused
C17_Witness ==
  /\ status = "Faulted"
  /\ fault = "addr must be positive"
  /\ instruction = 1105
  /\ ptr = -2
  /\ steps = 2

(***************************************************************************)
(* C18: a memory write whose resolved destination address is negative (a   *)
(* negative Positional destination, or relBase + offset < 0 in Relative    *)
(* mode) is a NegativeAddress fault: the run ends in Faulted and nothing   *)
(* is stored.                                                              *)
(***************************************************************************)
C18_NegativeDestination(i) == ModeOf(i) \in {0, 2} /\ AddrOf(i) < 0

C18_Refused == status' = "Faulted" /\ mem' = mem /\ props' = props

C18_NegativeWriteFaults ==
  [][/\ \A op \in {1, 2, 7, 8} :
          (Executing(op) /\ Readable(0) /\ Readable(1) /\ C18_NegativeDestination(2))
            => C18_Refused
     /\ (status = "AwaitingInput" /\ C18_NegativeDestination(0)
           /\ Len(consumed') = Len(consumed) + 1)
          => C18_Refused]_vars

(***************************************************************************)
(* C19: over any run, the k-th value consumed by an input instruction is   *)
(* the k-th value supplied by the input source, and the k-th value         *)
(* received by the output sink is the value emitted by the k-th executed   *)
(* output instruction: no value is reordered, duplicated or dropped.       *)
(* `consumed` lists the numbers askNumber has resolved with, `out` the     *)
(* values handed to console.log, both in order of occurrence.              *)
(***************************************************************************)
C19_Last(q) == q[Len(q)]

C19_Extends(q, r) == Len(r) = Len(q) + 1 /\ SubSeq(r, 1, Len(q)) = q

C19_Order ==
  [][/\ (consumed' # consumed)
          => /\ status = "AwaitingInput"
             /\ C19_Extends(consumed, consumed')
             /\ (Writable(0) /\ AddrOf(0) >= 0)
                  => CellAt(mem', AddrOf(0)) = C19_Last(consumed')
     /\ (status = "AwaitingInput" /\ status' # "AwaitingInput")
          => C19_Extends(consumed, consumed')
     /\ (out' # out)
          => (Executing(4) /\ Readable(0) /\ C19_Extends(out, out')
                /\ C19_Last(out') = ValueOf(0))
     /\ (Executing(4) /\ Readable(0)) => C19_Extends(out, out')]_vars

\* two values were supplied and stored in order, and the first was emitted
C19_Witness ==
  /\ consumed = <<-1, 1>>
  /\ CellAt(mem, 9) = -1
  /\ CellAt(mem, 10) = 1
  /\ out = <<-1>>
  /\ ptr = 6
  /\ status = "Running"

(***************************************************************************)
(* C20: for every halting program, two runs started from the same initial  *)
(* memory and fed the same input sequence end with identical final memory  *)
(* and identical output sequence, and visit the same sequence of pointer / *)
(* relative-base values.  The second run follows the first one fetch by    *)
(* fetch and output by output, never faults, and halts in the state the    *)
(* first run halted in.                                                    *)
(***************************************************************************)
C20_Prefix(q, r) == Len(q) <= Len(r) /\ SubSeq(r, 1, Len(q)) = q

C26_Held(who, st) == st = "AwaitingInput" => rl.questionCallback = who

C26_Independent ==
  /\ C26_Held(me, status)
  /\ parked.me # 0 => C26_Held(parked.me, parked.status)

(***************************************************************************)
(* C24: a run returns control to its caller only when the engine has       *)
(* reached Halted or Faulted: it never returns while the status is Running *)
(* or AwaitingInput, and whenever it has returned normally the last        *)
(* fetched instruction had opcode 99.  (The normal return of cpu is the    *)
(* step that makes the status Halted.)                                     *)
(***************************************************************************)
C24_Returns ==
  [][/\ (status' = "Halted" /\ status # "Halted")
          => (Executing(99) /\ opcode' = 99)
     /\ status' = "Halted"
          => (instruction' % 100 = 99 /\ CellAt(mem', ptr') = instruction')]_vars

\* the run returned on the halt that follows two outputs
C24_Witness ==
  /\ status = "Halted"
  /\ instruction = 99
  /\ out = <<1, 7>>
  /\ ptr = 4

(***************************************************************************)
(* C25: every fault kind is terminal for the run that produced it: once a  *)
(* run is Faulted no further instruction is fetched or executed and its    *)
(* memory, pointer and relative base are never changed again.              *)
(***************************************************************************)
C25_Raised == fault \notin {"none", "1202 - unknown opcode"}

C25_Terminal == [][status # "Faulted" /\ ~C25_Raised]_vars

\* a run faulted on its first instruction, with iterations to spare and a
\* well-formed instruction under the pointer
C25_Witness ==
  /\ status = "Faulted"
  /\ fault = "Unexpected digit"
  /\ steps = 1
  /\ steps < MaxSteps
  /\ CurOp = 4

(***************************************************************************)
(* C27: the engine yields control only inside opcode 3 (waiting for the    *)
(* input source) or opcode 4 (waiting for the output sink): every other    *)
(* instruction (1, 2, 5, 6, 7, 8, 9, 99) executes as one uninterrupted     *)
(* step.                                                                   *)
(***************************************************************************)
C27_Yields ==
  [][/\ status' = "AwaitingInput"
          => /\ status = "AwaitingInput" \/ Executing(3)
             /\ opcode' \in {3, 4}
             /\ CellAt(mem', ptr') % 100 \in {3, 4}
     /\ \A op \in {1, 2, 5, 6, 7, 8, 9, 99} :
          Executing(op) => status' # "AwaitingInput"]_vars

\* the engine is suspended in its second input instruction
C27_Witness ==
  /\ status = "AwaitingInput"
  /\ steps = 2
  /\ consumed = <<1>>
  /\ ptr = 2
  /\ rl.questionCallback = me

(***************************************************************************)
(* C28: when the input source reports that no further values are or ever   *)
(* will be available, an input instruction ends the run with the terminal  *)
(* fault InputExhausted, which is distinct from remaining suspended in     *)
(* AwaitingInput.                                                          *)
(***************************************************************************)
C28_InputExhausted ==
  [][(status = "AwaitingInput" /\ ~rl.closed /\ rl'.closed)
       => status' = "Faulted"]_vars

(***************************************************************************)
(* C30: instructions are atomic with respect to faults: whenever executing *)
(* an instruction raises a fault, the memory contents, memory extent,      *)
(* instruction pointer and relative base are exactly what they were when   *)
(* that instruction was fetched.                                           *)
(***************************************************************************)
C30_Atomic ==
  [][(status # "Faulted" /\ status' = "Faulted")
       => (mem' = mem /\ props' = props /\ Len(mem') = Len(mem)
             /\ ptr' = ptr /\ rbase' = rbase)]_vars

\* the second instruction faulted: the base set by the first is kept
C30_Witness ==
  /\ status = "Faulted"
  /\ fault = "Mode cannot be immediate for writes"
  /\ steps = 2
  /\ rbase = 3
  /\ ptr = 2
  /\ instruction = 11101

(***************************************************************************)
(* C21: run(program) on a comma-separated program made only of positional  *)
(* add (1), multiply (2) and halt (99) instructions returns the            *)
(* comma-joined final memory obtained by executing the instructions at     *)
(* positions 0, 4, 8, ... until the first 99, each later instruction       *)
(* seeing the writes of the earlier ones; in particular                    *)
(* 1,0,0,0,99 -> 2,0,0,0,99; 2,3,0,3,99 -> 2,3,0,6,99;                     *)
(* 2,4,4,5,99,0 -> 2,4,4,5,99,9801;                                        *)
(* 1,1,1,4,99,5,6,0,99 -> 30,1,1,4,2,5,6,0,99.                             *)
(* (Stated of the runs whose operands all lie on the array.)               *)
(***************************************************************************)
C21_Expected ==
  { << <<"1", ",", "0", ",", "0", ",", "0", ",", "9", "9">>,
       <<"2", ",", "0", ",", "0", ",", "0", ",", "9", "9">> >>,
    << <<"2", ",", "3", ",", "0", ",", "3", ",", "9", "9">>,
       <<"2", ",", "3", ",", "0", ",", "6", ",", "9", "9">> >>,
    << <<"2", ",", "4", ",", "4", ",", "5", ",", "9", "9", ",", "0">>,
       <<"2", ",", "4", ",", "4", ",", "5", ",", "9", "9", ",",
         "9", "8", "0", "1">> >>,
    << <<"1", ",", "1", ",", "1", ",", "4", ",", "9", "9", ",", "5", ",", "6",
         ",", "0", ",", "9", "9">>,
       <<"3", "0", ",", "1", ",", "1", ",", "4", ",", "2", ",", "5", ",", "6",
         ",", "0", ",", "9", "9">> >> }

C21_Cell(a) == day2.mem[a + 1]

C21_Result ==
  IF C21_Cell(day2.ptr) = 1
  THEN C21_Cell(C21_Cell(day2.ptr + 1)) + C21_Cell(C21_Cell(day2.ptr + 2))
  ELSE C21_Cell(C21_Cell(day2.ptr + 1)) * C21_Cell(C21_Cell(day2.ptr + 2))

C29_ConstantDepth == day2.depth <= 1

(***************************************************************************)
(* C22: running the 16-integer program                                     *)
(* 109,1,204,-1,1001,100,1,100,1008,100,16,101,1006,101,0,99 with no input *)
(* halts after emitting exactly 16 outputs which are, in order, the 16     *)
(* integers of the program itself; the program's own 16 cells are          *)
(* unchanged at halt (only cells 100 and 101 beyond the initial extent are *)
(* written).                                                               *)
(***************************************************************************)
C22_Text ==
  <<109, 1, 204, -1, 1001, 100, 1, 100, 1008, 100, 16, 101, 1006, 101, 0, 99>>

C22_Quine ==
  initial = C22_Text =>
    /\ status \in {"Running", "Halted"}
    /\ consumed = << >>
    /\ prompts = 0
    /\ props = << >>
    /\ SubSeq(mem, 1, 16) = C22_Text
    /\ Len(out) <= 16
    /\ out = SubSeq(C22_Text, 1, Len(out))
    /\ \A a \in 16 .. Len(mem) - 1 : a \notin {100, 101} => mem[a + 1] = 0
    /\ status = "Halted" =>
         (out = C22_Text /\ CellAt(mem, 100) = 16 /\ CellAt(mem, 101) = 1)

\* the program has halted after its sixteen turns of the loop
C22_Witness ==
  /\ initial = C22_Text
  /\ status = "Halted"
  /\ Len(out) = 16
  /\ out[16] = 99
  /\ steps = 81
  /\ rbase = 16

(***************************************************************************)
(* C23: large integers pass through the VM exactly: the program            *)
(* 1102,34915192,34915192,7,4,7,99,0 emits the single output               *)
(* 1219070632396864 and the program 104,1125899906842624,99 emits the      *)
(* single output 1125899906842624, with no truncation, wrap-around or loss *)
(* of precision in multiplication, storage or output.                      *)
(***************************************************************************)
C23_Square ==
  <<"1", "1", "0", "2", ",", "3", "4", "9", "1", "5", "1", "9", "2", ",",
    "3", "4", "9", "1", "5", "1", "9", "2", ",", "7", ",", "4", ",", "7", ",",
    "9", "9", ",", "0">>

C23_SquareOut ==
  <<"1", "2", "1", "9", "0", "7", "0", "6", "3", "2", "3", "9", "6", "8", "6", "4">>

C23_Middle ==
  <<"1", "0", "4", ",", "1", "1", "2", "5", "8", "9", "9", "9", "0", "6", "8",
    "4", "2", "6", "2", "4", ",", "9", "9">>

C23_MiddleOut ==
  <<"1", "1", "2", "5", "8", "9", "9", "9", "0", "6", "8", "4", "2", "6", "2", "4">>

C23_Exact ==
  /\ Len(wide.out) <= 1
  /\ (wide.input = C23_Square /\ wide.status = "Halted")
       => wide.out = <<C23_SquareOut>>
  /\ (wide.input = C23_Square /\ wide.ptr >= 4)
       => WideString(wide.mem[8]) = C23_SquareOut
  /\ (wide.input = C23_Middle /\ wide.status = "Halted")
       => wide.out = <<C23_MiddleOut>>

\* the square has been computed, stored, emitted, and the run has halted
C23_Witness ==
  /\ wide.input = C23_Square
  /\ wide.status = "Halted"
  /\ wide.ptr = 6
  /\ wide.out = <<C23_SquareOut>>

(***************************************************************************)
(* The same program given to run(input) of day 2 and to cpu of             *)
(* lib/intcode.js: each machine takes its steps on its own memory.  The    *)
(* programs of day 2 never bring cpu to an input instruction or to a       *)
(* negative pointer, so the steps of cpu are those of the other cases.     *)
(***************************************************************************)
InitBoth ==
  /\ day2 \in {[NoDay2 EXCEPT !.input = text, !.status = "Called"] : text \in Day2Inputs}
  /\ mem = parse(day2.input)
  /\ props = << >>
  /\ ptr = 0
  /\ rbase = 0
  /\ status = "Running"
  /\ fault = "none"
  /\ instruction = 0
  /\ opcode = 0
  /\ out = << >>
  /\ prompts = 0
  /\ consumed = << >>
  /\ steps = 0
  /\ path = << >>
  /\ initial = mem
  /\ run = 1
  /\ first = NoRun
  /\ rl = [questionCallback |-> 0, closed |-> FALSE]
  /\ typed = << >>
  /\ me = 1
  /\ parked = NoInstance
  /\ wide = NoWide
  /\ NoOthers

NextBoth ==
  \/ Day2Load
  \/ Day2Arithmetic(1)
  \/ Day2Arithmetic(2)
  \/ Day2Halt
  \/ Day2Exit
  \/ Add
  \/ Multiply
  \/ Output
  \/ JumpIfTrue
  \/ JumpIfFalse
  \/ Less
  \/ Equals
  \/ AdjustBase
  \/ Halt
  \/ UnknownOpcode

SpecBoth == InitBoth /\ [][NextBoth]_vars

(***************************************************************************)
(* cpu of 04b.js: the version of day 5, with two addressing modes, no      *)
(* relative base, and a memory that does not grow.  It is started on the   *)
(* program given to cpu of lib/intcode.js and has its own prompt.  A value *)
(* read off the array is undefined: the memory is then no longer one of    *)
(* integers and the run is not followed further ("NotIntegers").           *)
(***************************************************************************)
\* mem[a] of the array
twoCell(m, a) ==
  [def |-> a >= 0 /\ a < Len(m), val |-> IF a >= 0 /\ a < Len(m) THEN m[a + 1] ELSE 0]

\* function read(idx), with function mode(idx) as md
twoRead(m, p, ins, idx) ==
  LET value == twoCell(m, p + idx + 1)
      bit   == digit(ins, idx + 2)
      md    == CASE bit = 0 -> [ok |-> TRUE, val |-> "POSITIONAL", err |-> "none"]
                 [] bit = 1 -> [ok |-> TRUE, val |-> "IMMEDIATE", err |-> "none"]
                 [] OTHER   -> [ok |-> FALSE, val |-> "none", err |-> "Unexpected digit"]
      cell  == twoCell(m, value.val)
  IN  IF ~md.ok THEN [ok |-> FALSE, def |-> FALSE, val |-> 0, err |-> md.err]
      ELSE IF md.val = "IMMEDIATE" \/ ~value.def
      THEN [ok |-> TRUE, def |-> value.def, val |-> value.val, err |-> "none"]
      ELSE [ok |-> TRUE, def |-> cell.def, val |-> cell.val, err |-> "none"]

\* function put(n, value): the mode digit of the operand is not looked at
twoPut(m, p, n, value) ==
  LET outaddr == twoCell(m, p + n + 1)
  IN  IF outaddr.def /\ outaddr.val >= Len(m)
      THEN [ok |-> FALSE, def |-> FALSE, mem |-> m, err |-> "Buffer overflow"]
      ELSE IF ~outaddr.def \/ outaddr.val < 0
      THEN [ok |-> TRUE, def |-> FALSE, mem |-> m, err |-> "none"]
      ELSE [ok |-> TRUE, def |-> TRUE,
            mem |-> [m EXCEPT ![outaddr.val + 1] = value], err |-> "none"]

\* a comparison read the other way round
twoResultReversed(op, a, b) ==
  CASE op = 1 -> a + b
    [] op = 2 -> a * b
    [] op = 7 -> (IF b < a THEN 1 ELSE 0)
    [] op = 8 -> (IF a = b THEN 1 ELSE 0)

\* a + b, a * b, a < b ? 1 : 0, a === b ? 1 : 0
twoResult(op, a, b) ==
  CASE op = 1 -> a + b
    [] op = 2 -> a * b
    [] op = 7 -> (IF a < b THEN 1 ELSE 0)
    [] op = 8 -> (IF a = b THEN 1 ELSE 0)

\* the programs given to both versions: one instruction of any case with
\* modes 0, 1, 2 and a halt, and the programs with several inputs and outputs
TwoPrograms ==
  UNION {{<<op + 100 * m0 + 1000 * m1 + 10000 * m2, a, b, c, 99>> :
            m0 \in DigitsAt(op, 0) \ {3}, m1 \in DigitsAt(op, 1) \ {3},
            m2 \in DigitsAt(op, 2) \ {3}, a \in Vals, b \in Vals, c \in Vals} :
         op \in Opcodes}
  \cup IOPrograms
  \cup { <<3, 0, 1005, 0, 6, 99, 104, 7, 99>>,
         <<1107, 1, 7, 11, 1005, 11, 8, 99, 104, -2, 99, 0>> }

InitTwo ==
  /\ mem \in TwoPrograms
  /\ props = << >>
  /\ ptr = 0
  /\ rbase = 0
  /\ status = "Running"
  /\ fault = "none"
  /\ instruction = 0
  /\ opcode = 0
  /\ out = << >>
  /\ prompts = 0
  /\ consumed = << >>
  /\ steps = 0
  /\ path = << >>
  /\ initial = mem
  /\ run = 1
  /\ first = NoRun
  /\ rl = [questionCallback |-> 0, closed |-> FALSE]
  /\ typed = << >>
  /\ me = 1
  /\ parked = NoInstance
  /\ day2 = NoDay2
  /\ wide = NoWide
  /\ two = [mem |-> mem, ptr |-> 0, status |-> "Running", fault |-> "none",
            out |-> << >>, prompts |-> 0, consumed |-> << >>, steps |-> 0]
  /\ chunks = Idle
  /\ robot = Idle
  /\ lab = Idle

\* const instruction = mem[ptr]; const opcode = instruction % 100
TwoFetch(op) ==
  /\ two.status = "Running"
  /\ two.steps < MaxSteps
  /\ twoCell(two.mem, two.ptr).def
  /\ JsRem(two.mem[two.ptr + 1], 100) = op

\* a throw: the promise of cpu rejects
TwoThrow(e) ==
  [two EXCEPT !.status = "Faulted", !.fault = e, !.steps = two.steps + 1]

\* an undefined value has been read or a property written
TwoLost == [two EXCEPT !.status = "NotIntegers", !.steps = two.steps + 1]

\* cases 1, 2, 7, 8: read(0), read(1), put(2, result); cpu(mem, ptr + 4)
TwoBinary(op) ==
  /\ TwoFetch(op)
  /\ LET m   == two.mem
         p   == two.ptr
         ins == m[p + 1]
         a   == twoRead(m, p, ins, 0)
         b   == twoRead(m, p, ins, 1)
         w   == twoPut(m, p, 2, twoResult(op, a.val, b.val))
     IN  two' = IF ~a.ok THEN TwoThrow(a.err)
                ELSE IF ~b.ok THEN TwoThrow(b.err)
                ELSE IF ~w.ok THEN TwoThrow(w.err)
                ELSE IF ~(a.def /\ b.def /\ w.def) THEN TwoLost
                ELSE [two EXCEPT !.mem = w.mem, !.ptr = p + 4,
                                 !.steps = two.steps + 1]
  /\ UNCHANGED <<machine, day2, wide, chunks, robot, lab>>

\* case 3, up to the await: input() issues the prompt
TwoAskInput ==
  /\ TwoFetch(3)
  /\ two' = [two EXCEPT !.status = "AwaitingInput", !.prompts = two.prompts + 1,
                        !.steps = two.steps + 1]
  /\ UNCHANGED <<machine, day2, wide, chunks, robot, lab>>

\* an answer is typed: input() asks again on NaN, else cpu resumes with
\* put(0, answer); cpu(mem, ptr + 2)
TwoAnswer(s) ==
  /\ two.status = "AwaitingInput"
  /\ LET n == Number(s)
         w == twoPut(two.mem, two.ptr, 0, n.val)
         t == [two EXCEPT !.consumed = Append(two.consumed, n.val)]
     IN  IF n.nan
         THEN /\ two.prompts < MaxPrompts
              /\ two' = [two EXCEPT !.prompts = two.prompts + 1]
         ELSE two' = IF ~w.ok THEN [t EXCEPT !.status = "Faulted", !.fault = w.err]
                     ELSE IF ~w.def THEN [t EXCEPT !.status = "NotIntegers"]
                     ELSE [t EXCEPT !.mem = w.mem, !.ptr = two.ptr + 2,
                                    !.status = "Running"]
  /\ UNCHANGED <<machine, day2, wide, chunks, robot, lab>>

\* case 4: console.log('out: ' + read(0)); cpu(mem, ptr + 2)
TwoOutput ==
  /\ TwoFetch(4)
  /\ LET a == twoRead(two.mem, two.ptr, two.mem[two.ptr + 1], 0)
     IN  two' = IF ~a.ok THEN TwoThrow(a.err)
                ELSE IF ~a.def THEN TwoLost
                ELSE [two EXCEPT !.out = Append(two.out, a.val),
                                 !.ptr = two.ptr + 2, !.steps = two.steps + 1]
  /\ UNCHANGED <<machine, day2, wide, chunks, robot, lab>>

\* cases 5 and 6: next = taken(cmp) ? read(1) : ptr + 3; cpu(mem, next)
TwoJump(op) ==
  /\ TwoFetch(op)
  /\ LET m      == two.mem
         p      == two.ptr
         cmp    == twoRead(m, p, m[p + 1], 0)
         target == twoRead(m, p, m[p + 1], 1)
         taken  == IF op = 5 THEN cmp.val # 0 ELSE cmp.val = 0
     IN  two' = IF ~cmp.ok THEN TwoThrow(cmp.err)
                ELSE IF ~cmp.def THEN TwoLost
                ELSE IF ~taken
                THEN [two EXCEPT !.ptr = p + 3, !.steps = two.steps + 1]
                ELSE IF ~target.ok THEN TwoThrow(target.err)
                ELSE IF ~target.def THEN TwoLost
                ELSE [two EXCEPT !.ptr = target.val, !.steps = two.steps + 1]
  /\ UNCHANGED <<machine, day2, wide, chunks, robot, lab>>

\* case 99: return mem
TwoHalt ==
  /\ TwoFetch(99)
  /\ two' = [two EXCEPT !.status = "Halted", !.steps = two.steps + 1]
  /\ UNCHANGED <<machine, day2, wide, chunks, robot, lab>>

\* default (opcode 9 and the unknown ones, or no cell under the pointer):
\* process.exit(2)
TwoExit ==
  /\ two.status = "Running"
  /\ two.steps < MaxSteps
  /\ IF twoCell(two.mem, two.ptr).def
     THEN JsRem(two.mem[two.ptr + 1], 100) \notin {1, 2, 3, 4, 5, 6, 7, 8, 99}
     ELSE TRUE
  /\ two' = [two EXCEPT !.status = "Exited", !.steps = two.steps + 1]
  /\ UNCHANGED <<machine, day2, wide, chunks, robot, lab>>

NextTwo ==
  \/ Add
  \/ Multiply
  \/ AskInput
  \/ InputArrives
  \/ Output
  \/ JumpIfTrue
  \/ JumpIfFalse
  \/ Less
  \/ Equals
  \/ AdjustBase
  \/ Halt
  \/ UnknownOpcode
  \/ FetchFault
  \/ TwoBinary(1)
  \/ TwoBinary(2)
  \/ TwoAskInput
  \/ \E s \in Answers : TwoAnswer(s)
  \/ TwoOutput
  \/ TwoJump(5)
  \/ TwoJump(6)
  \/ TwoBinary(7)
  \/ TwoBinary(8)
  \/ TwoHalt
  \/ TwoExit

SpecTwo == InitTwo /\ [][NextTwo]_vars

(***************************************************************************)
(* chunked(iterable, size) of unnamed/part_001 (lib/async-itertools): an   *)
(* asynchronous generator.  `input` is what the iterable will deliver,     *)
(* `received` the number of items taken from it, `chunk` the array being   *)
(* filled and `yielded` the arrays handed to the consumer so far.          *)
(***************************************************************************)
\* what an iterable delivers: up to n items, each one of 1, 2, 3
ItemSequences(n) == UNION {[1 .. k -> {1, 2, 3}] : k \in 0 .. n}

InitChunks ==
  /\ mem = << >>
  /\ props = << >>
  /\ ptr = 0
  /\ rbase = 0
  /\ status = "None"
  /\ fault = "none"
  /\ instruction = 0
  /\ opcode = 0
  /\ out = << >>
  /\ prompts = 0
  /\ consumed = << >>
  /\ steps = 0
  /\ path = << >>
  /\ initial = << >>
  /\ run = 1
  /\ first = NoRun
  /\ rl = [questionCallback |-> 0, closed |-> FALSE]
  /\ typed = << >>
  /\ me = 1
  /\ parked = NoInstance
  /\ day2 = NoDay2
  /\ wide = NoWide
  /\ two = Idle
  /\ chunks \in {[status |-> "Called", input |-> q, size |-> n, received |-> 0,
                  chunk |-> << >>, yielded |-> << >>] :
                   q \in ItemSequences(MaxItems), n \in 1 .. MaxSize}
  /\ robot = Idle
  /\ lab = Idle

\* let r1 = await it.next(); if (r1.done) return; let chunk = [r1.value]
ChunkFirst ==
  /\ chunks.status = "Called"
  /\ chunks' = IF Len(chunks.input) = 0
               THEN [chunks EXCEPT !.status = "Done"]
               ELSE [chunks EXCEPT !.status = "Iterating", !.received = 1,
                                   !.chunk = <<chunks.input[1]>>]
  /\ UNCHANGED <<machine, day2, wide, two, robot, lab>>

\* for await (const item of it): chunk.push(item);
\* if (chunk.length === size) { yield chunk; chunk = [] }
ChunkItem ==
  /\ chunks.status = "Iterating"
  /\ chunks.received < Len(chunks.input)
  /\ LET filled == Append(chunks.chunk, chunks.input[chunks.received + 1])
     IN  chunks' = IF Len(filled) = chunks.size
                   THEN [chunks EXCEPT !.received = chunks.received + 1,
                                       !.yielded = Append(chunks.yielded, filled),
                                       !.chunk = << >>]
                   ELSE [chunks EXCEPT !.received = chunks.received + 1,
                                       !.chunk = filled]
  /\ UNCHANGED <<machine, day2, wide, two, robot, lab>>

\* the iterable is done: if (chunk.length > 0) yield chunk
ChunkRemainder ==
  /\ chunks.status = "Iterating"
  /\ chunks.received = Len(chunks.input)
  /\ chunks' = IF Len(chunks.chunk) > 0
               THEN [chunks EXCEPT !.status = "Done",
                                   !.yielded = Append(chunks.yielded, chunks.chunk),
                                   !.chunk = << >>]
               ELSE [chunks EXCEPT !.status = "Done"]
  /\ UNCHANGED <<machine, day2, wide, two, robot, lab>>

NextChunks ==
  \/ ChunkFirst
  \/ ChunkItem
  \/ ChunkRemainder

SpecChunks == InitChunks /\ [][NextChunks]_vars

(***************************************************************************)
(* The painting robot of puzzle-02-part1.js (day 11): main() consumes the  *)
(* outputs of the brain, a cpu whose program is read from a data file;     *)
(* each output is any number.  `handled` counts the outputs consumed and   *)
(* `last` is the one consumed last.                                        *)
(***************************************************************************)
\* `${p.x},${p.y}`
toXY(p) == toString(p.x) \o <<",">> \o toString(p.y)

\* this.panels.set(toXY(this.current), color)
paint(r, color) ==
  LET xy == toXY(r.current)
  IN  [r EXCEPT !.panels = [k \in (DOMAIN r.panels) \cup {xy} |->
                              IF k = xy THEN color ELSE r.panels[k]]]

\* a turn to the right that skips a quarter
turnRightTwice(r) ==
  [r EXCEPT !.direction = CASE r.direction = "NORTH" -> "SOUTH"
                            [] r.direction = "EAST"  -> "WEST"
                            [] r.direction = "SOUTH" -> "NORTH"
                            [] OTHER                 -> "EAST"]

turnRight(r) ==
  [r EXCEPT !.direction = CASE r.direction = "NORTH" -> "EAST"
                            [] r.direction = "EAST"  -> "SOUTH"
                            [] r.direction = "SOUTH" -> "WEST"
                            [] OTHER                 -> "NORTH"]

turnLeft(r) == turnRight(turnRight(turnRight(r)))

\* a step of two cells
forwardTwo(r) ==
  CASE r.direction = "NORTH" -> [r EXCEPT !.current.y = r.current.y - 2]
    [] r.direction = "SOUTH" -> [r EXCEPT !.current.y = r.current.y + 2]
    [] r.direction = "EAST"  -> [r EXCEPT !.current.x = r.current.x + 2]
    [] r.direction = "WEST"  -> [r EXCEPT !.current.x = r.current.x - 2]

forward(r) ==
  CASE r.direction = "NORTH" -> [r EXCEPT !.current.y = r.current.y - 1]
    [] r.direction = "SOUTH" -> [r EXCEPT !.current.y = r.current.y + 1]
    [] r.direction = "EAST"  -> [r EXCEPT !.current.x = r.current.x + 1]
    [] r.direction = "WEST"  -> [r EXCEPT !.current.x = r.current.x - 1]

\* the numbers the brain may put out
Brains == {0, 1, 2}

\* new Robot(), mode = 'PAINT'
NewRobot ==
  [status |-> "Consuming", direction |-> "NORTH", current |-> [x |-> 0, y |-> 0],
   panels |-> << >>, mode |-> "PAINT", handled |-> 0, last |-> 0]

\* main(startOnWhitePanel), up to the loop
InitRobot ==
  /\ mem = << >>
  /\ props = << >>
  /\ ptr = 0
  /\ rbase = 0
  /\ status = "None"
  /\ fault = "none"
  /\ instruction = 0
  /\ opcode = 0
  /\ out = << >>
  /\ prompts = 0
  /\ consumed = << >>
  /\ steps = 0
  /\ path = << >>
  /\ initial = << >>
  /\ run = 1
  /\ first = NoRun
  /\ rl = [questionCallback |-> 0, closed |-> FALSE]
  /\ typed = << >>
  /\ me = 1
  /\ parked = NoInstance
  /\ day2 = NoDay2
  /\ wide = NoWide
  /\ two = Idle
  /\ chunks = Idle
  /\ robot \in {NewRobot, paint(NewRobot, "WHITE")}
  /\ lab = Idle

\* the loop body in mode PAINT
RobotPaint(ins) ==
  /\ robot.status = "Consuming"
  /\ robot.handled < MaxOutputs
  /\ robot.mode = "PAINT"
  /\ robot' = [paint(robot, IF ins = 0 THEN "BLACK" ELSE "WHITE") EXCEPT
                 !.mode = "MOVE", !.handled = robot.handled + 1, !.last = ins]
  /\ UNCHANGED <<machine, day2, wide, two, chunks, lab>>

\* the loop body in mode MOVE
RobotMove(ins) ==
  /\ robot.status = "Consuming"
  /\ robot.handled < MaxOutputs
  /\ robot.mode = "MOVE"
  /\ robot' = [forward(IF ins = 0 THEN turnLeft(robot) ELSE turnRight(robot)) EXCEPT
                 !.mode = "PAINT", !.handled = robot.handled + 1, !.last = ins]
  /\ UNCHANGED <<machine, day2, wide, two, chunks, lab>>

\* the brain halts: the loop ends
RobotDone ==
  /\ robot.status = "Consuming"
  /\ robot' = [robot EXCEPT !.status = "Done"]
  /\ UNCHANGED <<machine, day2, wide, two, chunks, lab>>

NextRobot ==
  \/ \E ins \in Brains : RobotPaint(ins)
  \/ \E ins \in Brains : RobotMove(ins)
  \/ RobotDone

SpecRobot == InitRobot /\ [][NextRobot]_vars

(***************************************************************************)
(* class Lab of 14a.js.  produce and useOrProduce call each other: `stack` *)
(* holds the calls that have not returned, the last one executing.  A      *)
(* frame of produce keeps minQty, produced and the number of reactants of  *)
(* the current batch already asked for; a frame of useOrProduce keeps qty  *)
(* and remainder.  Each frame also notes the stock of its element and the  *)
(* slurped counter at the time of the call.                                *)
(***************************************************************************)
Elements == {"ORE", "A", "B", "FUEL"}

\* rule sets as parse() builds them: product -> { produces, reactants }
Substance(n, q) == [name |-> n, qty |-> q]

Reaction(p, rs) == [produces |-> p, reactants |-> rs]

RuleSets ==
  { [e \in {"A", "B", "FUEL"} |->
       CASE e = "A"    -> Reaction(2, <<Substance("ORE", 3)>>)
         [] e = "B"    -> Reaction(3, <<Substance("ORE", 1), Substance("A", 2)>>)
         [] e = "FUEL" -> Reaction(1, <<Substance("A", 1), Substance("B", 2)>>)],
    [e \in {"A", "FUEL"} |->
       CASE e = "A"    -> Reaction(1, <<Substance("ORE", 2)>>)
         [] e = "FUEL" -> Reaction(2, <<Substance("A", 3), Substance("ORE", 1)>>)] }

\* this.stock.get(element) || 0
available(l, element) == l.stock[element]

\* add(element, qty)
add(l, element, qty) == [l EXCEPT !.stock[element] = available(l, element) + qty]

\* remove(element, qty)
remove(l, element, qty) == [l EXCEPT !.stock[element] = available(l, element) - qty]

\* slurp(qty)
slurp(l, qty) == add([l EXCEPT !.slurped = l.slurped + qty], "ORE", qty)

\* a version that takes the whole quantity whatever the stock holds
useFromStockOverdraws(l, element, qty) ==
  [lab |-> remove(l, element, qty), remainder |-> 0]

\* useFromStock(element, qty): the Lab after it, and the value returned
useFromStock(l, element, qty) ==
  IF available(l, element) >= qty
  THEN [lab |-> remove(l, element, qty), remainder |-> 0]
  ELSE [lab |-> remove(l, element, available(l, element)),
        remainder |-> qty - available(l, element)]

\* a loop that stops one batch short of minQty
enoughOneShort(produced, minQty, produces) == produced + produces >= minQty

\* the test of the do-while of produce, negated
enough(produced, minQty, produces) == produced >= minQty

\* a call of produce / useOrProduce that has just been made
ProduceFrame(l, element, minQty) ==
  [fn |-> "produce", element |-> element, qty |-> minQty, produced |-> 0,
   asked |-> 0, remainder |-> 0, phase |-> "Enter",
   before |-> available(l, element), slurpedBefore |-> l.slurped]

UseFrame(l, element, qty) ==
  [fn |-> "useOrProduce", element |-> element, qty |-> qty, produced |-> 0,
   asked |-> 0, remainder |-> 0, phase |-> "Enter",
   before |-> available(l, element), slurpedBefore |-> l.slurped]

Top == lab.stack[Len(lab.stack)]

Executing14(fn) ==
  lab.status = "Ready" /\ Len(lab.stack) > 0 /\ Top.fn = fn

push(l, frame) == [l EXCEPT !.stack = Append(l.stack, frame)]

\* the executing call returns
return(l) == [l EXCEPT !.stack = SubSeq(l.stack, 1, Len(l.stack) - 1)]

\* new Lab(rules)
InitLab ==
  /\ mem = << >>
  /\ props = << >>
  /\ ptr = 0
  /\ rbase = 0
  /\ status = "None"
  /\ fault = "none"
  /\ instruction = 0
  /\ opcode = 0
  /\ out = << >>
  /\ prompts = 0
  /\ consumed = << >>
  /\ steps = 0
  /\ path = << >>
  /\ initial = << >>
  /\ run = 1
  /\ first = NoRun
  /\ rl = [questionCallback |-> 0, closed |-> FALSE]
  /\ typed = << >>
  /\ me = 1
  /\ parked = NoInstance
  /\ day2 = NoDay2
  /\ wide = NoWide
  /\ two = Idle
  /\ chunks = Idle
  /\ robot = Idle
  /\ lab \in {[status |-> "Ready", rules |-> rules, stock |-> [e \in Elements |-> 0],
               slurped |-> 0, stack |-> << >>, calls |-> 0, newRemainder |-> 0] :
                rules \in RuleSets}

\* lab.produce(element, minQty) is called from outside
CallProduce(element, minQty) ==
  /\ lab.status = "Ready"
  /\ lab.stack = << >>
  /\ lab.calls < MaxCalls
  /\ lab' = [push(lab, ProduceFrame(lab, element, minQty)) EXCEPT !.calls = lab.calls + 1]
  /\ UNCHANGED <<machine, day2, wide, two, chunks, robot>>

\* lab.useOrProduce(element, qty) is called from outside
CallUseOrProduce(element, qty) ==
  /\ lab.status = "Ready"
  /\ lab.stack = << >>
  /\ lab.calls < MaxCalls
  /\ lab' = [push(lab, UseFrame(lab, element, qty)) EXCEPT !.calls = lab.calls + 1]
  /\ UNCHANGED <<machine, day2, wide, two, chunks, robot>>

\* produce: if (element === 'ORE') { this.slurp(minQty); return; }
ProduceOre ==
  /\ Executing14("produce")
  /\ Top.element = "ORE"
  /\ lab' = return(slurp(lab, Top.qty))
  /\ UNCHANGED <<machine, day2, wide, two, chunks, robot>>

\* produce: invariant(rule, 'Weird. No production rule ...') throws
ProduceNoRule ==
  /\ Executing14("produce")
  /\ Top.element # "ORE"
  /\ Top.element \notin DOMAIN lab.rules
  /\ lab' = [lab EXCEPT !.status = "Faulted"]
  /\ UNCHANGED <<machine, day2, wide, two, chunks, robot>>

\* produce: this.useOrProduce(reactant.name, reactant.qty) for the next
\* reactant of the batch
ProduceReactant ==
  /\ Executing14("produce")
  /\ Top.element \in DOMAIN lab.rules
  /\ LET rule     == lab.rules[Top.element]
         reactant == rule.reactants[Top.asked + 1]
         here     == [lab EXCEPT !.stack[Len(lab.stack)].asked = Top.asked + 1]
     IN  /\ Top.asked < Len(rule.reactants)
         /\ lab' = push(here, UseFrame(lab, reactant.name, reactant.qty))
  /\ UNCHANGED <<machine, day2, wide, two, chunks, robot>>

\* produce: this.add(element, produces); produced += produces;
\* while (produced < minQty)
ProduceBatch ==
  /\ Executing14("produce")
  /\ Top.element \in DOMAIN lab.rules
  /\ LET rule     == lab.rules[Top.element]
         produced == Top.produced + rule.produces
         added    == add(lab, Top.element, rule.produces)
     IN  /\ Top.asked = Len(rule.reactants)
         /\ lab' = IF enough(produced, Top.qty, rule.produces)
                   THEN return(added)
                   ELSE [added EXCEPT !.stack[Len(lab.stack)].produced = produced,
                                      !.stack[Len(lab.stack)].asked = 0]
  /\ UNCHANGED <<machine, day2, wide, two, chunks, robot>>

\* useOrProduce: remainder = this.useFromStock(element, qty);
\* if (remainder) this.produce(element, remainder)
UseOrProduce ==
  /\ Executing14("useOrProduce")
  /\ Top.phase = "Enter"
  /\ LET used == useFromStock(lab, Top.element, Top.qty)
         here == [used.lab EXCEPT !.stack[Len(lab.stack)].remainder = used.remainder,
                                  !.stack[Len(lab.stack)].phase = "Produced"]
     IN  lab' = IF used.remainder = 0
                THEN return(used.lab)
                ELSE push(here, ProduceFrame(used.lab, Top.element, used.remainder))
  /\ UNCHANGED <<machine, day2, wide, two, chunks, robot>>

\* useOrProduce, after produce has returned:
\* newRemainder = this.useFromStock(element, remainder); invariant(newRemainder >= 0)
UseProduced ==
  /\ Executing14("useOrProduce")
  /\ Top.phase = "Produced"
  /\ LET used == useFromStock(lab, Top.element, Top.remainder)
     IN  lab' = [return(used.lab) EXCEPT !.newRemainder = used.remainder]
  /\ UNCHANGED <<machine, day2, wide, two, chunks, robot>>

NextLab ==
  \/ \E element \in Elements, qty \in 1 .. MaxQty : CallProduce(element, qty)
  \/ \E element \in Elements, qty \in 1 .. MaxQty : CallUseOrProduce(element, qty)
  \/ ProduceOre
  \/ ProduceNoRule
  \/ ProduceReactant
  \/ ProduceBatch
  \/ UseOrProduce
  \/ UseProduced

SpecLab == InitLab /\ [][NextLab]_vars

(***************************************************************************)
(* C31: an input instruction (opcode 3) whose destination operand is in    *)
(* Immediate mode or has an invalid mode digit faults before asking the    *)
(* input source: the step that executes it ends in Faulted, and no value   *)
(* is requested or consumed from the input source.                         *)
(***************************************************************************)
C31_BadDestination == ModeOf(0) \notin {0, 2}

C31_FaultsBeforeAsking ==
  [][(Executing(3) /\ C31_BadDestination)
       => (status' = "Faulted" /\ prompts' = prompts /\ consumed' = consumed)]_vars

(***************************************************************************)
(* C32: when the instruction pointer is at or beyond the memory extent,    *)
(* the fetch yields instruction 0 and the run ends with the invalid-opcode *)
(* fault for opcode 0; it neither halts normally nor keeps executing, and  *)
(* the fetch does not grow memory.                                         *)
(***************************************************************************)
C32_PastEnd == status = "Running" /\ ptr >= Len(mem)

C32_RunsOffEnd ==
  [][C32_PastEnd
       => (instruction' = 0 /\ opcode' = 0 /\ status' = "Faulted" /\ mem' = mem)]_vars

(***************************************************************************)
(* C33: for every program whose executed instructions are only opcodes 1,  *)
(* 2 and 99 with all mode digits 0 and operand and destination addresses   *)
(* inside the initial extent, the recursive interpreter of day 2 and cpu   *)
(* of lib/intcode.js are never apart: at equal pointers (after equally     *)
(* many instructions) their memories are equal, neither leaves the run     *)
(* otherwise than by the halt, and once halted both hold the same pointer  *)
(* and the same final memory, which run() of day 2 returns joined.         *)
(***************************************************************************)
C33_Inside(m, a) == a >= 0 /\ a < Len(m)

\* what the instruction at p is specified to leave in memory
C33_After(m, p) ==
  LET a == m[m[p + 2] + 1]
      b == m[m[p + 3] + 1]
  IN  [m EXCEPT ![m[p + 4] + 1] = IF m[p + 1] = 1 THEN a + b ELSE a * b]

\* the run from pointer p executes only instructions of the fragment
RECURSIVE C33_Fragment(_, _)
C33_Fragment(m, p) ==
  /\ C33_Inside(m, p)
  /\ \/ m[p + 1] = 99
     \/ /\ m[p + 1] \in {1, 2}
        /\ C33_Inside(m, p + 3)
        /\ \A i \in 1 .. 3 : C33_Inside(m, m[p + i + 1])
        /\ C33_Fragment(C33_After(m, p), p + 4)

C33_Equivalent ==
  (C33_Fragment(initial, 0) /\ day2.status # "Called")
    => /\ status \in {"Running", "Halted"}
       /\ day2.status \in {"Running", "Returned"}
       /\ props = << >>
       /\ ptr = day2.ptr => mem = day2.mem
       /\ (status = "Halted" /\ day2.status = "Returned")
            => (ptr = day2.ptr /\ mem = day2.mem /\ day2.output = join(mem))
       /\ (status = "Halted" /\ day2.status = "Running") => day2.ptr <= ptr
       /\ (status = "Running" /\ day2.status = "Returned") => ptr <= day2.ptr

\* the fourth example of day 2: an addition turns the halt at address 4
\* into a multiplication, and both machines have halted after it
C33_Witness ==
  /\ initial = <<1, 1, 1, 4, 99, 5, 6, 0, 99>>
  /\ status = "Halted"
  /\ day2.status = "Returned"
  /\ steps = 3
  /\ ptr = 8
  /\ day2.ptr = 8
  /\ mem = <<30, 1, 1, 4, 2, 5, 6, 0, 99>>
  /\ day2.mem = mem

(***************************************************************************)
(* C34: on programs restricted to opcodes 1-8 and 99 with mode digits 0 or *)
(* 1, Positional destinations and every accessed address inside the        *)
(* extent, cpu of 04b.js and cpu of lib/intcode.js, given the same input   *)
(* sequence, are never apart: an instruction of that fragment leaves each  *)
(* of them running, suspended or halted, and after equally many            *)
(* instructions and the same inputs they hold the same memory, pointer,    *)
(* output sequence and status, hence the same final memory, outputs and    *)
(* halt.                                                                   *)
(***************************************************************************)
C34_Live == {"Running", "AwaitingInput", "Halted"}

C34_Inside(m, a) == a >= 0 /\ a < Len(m)

C34_Digit(m, p, i) == (m[p + 1] \div Weight(i)) % 10

\* operand i of the instruction at p is read inside the extent
C34_Source(m, p, i) ==
  /\ C34_Inside(m, p + i + 1)
  /\ \/ C34_Digit(m, p, i) = 1
     \/ C34_Digit(m, p, i) = 0 /\ C34_Inside(m, m[p + i + 2])

\* operand i of the instruction at p is a Positional destination inside
C34_Destination(m, p, i) ==
  /\ C34_Inside(m, p + i + 1)
  /\ C34_Digit(m, p, i) = 0
  /\ C34_Inside(m, m[p + i + 2])

\* the value of a source operand of the fragment
C34_Value(m, p, i) ==
  IF C34_Digit(m, p, i) = 1 THEN m[p + i + 2] ELSE m[m[p + i + 2] + 1]

C34_Taken(m, p) ==
  IF m[p + 1] % 100 = 5 THEN C34_Value(m, p, 0) # 0 ELSE C34_Value(m, p, 0) = 0

\* the instruction at p belongs to the fragment
C34_Fragment(m, p) ==
  /\ C34_Inside(m, p)
  /\ m[p + 1] >= 0
  /\ LET op == m[p + 1] % 100
     IN  CASE op \in {1, 2, 7, 8} ->
                C34_Source(m, p, 0) /\ C34_Source(m, p, 1) /\ C34_Destination(m, p, 2)
           [] op = 3 -> C34_Destination(m, p, 0)
           [] op = 4 -> C34_Source(m, p, 0)
           [] op \in {5, 6} ->
                /\ C34_Source(m, p, 0)
                /\ C34_Digit(m, p, 1) \in {0, 1}
                /\ C34_Taken(m, p) => C34_Source(m, p, 1)
           [] op = 99 -> TRUE
           [] OTHER -> FALSE

C34_Same ==
  /\ (status \in C34_Live /\ two.status \in C34_Live
        /\ steps = two.steps /\ consumed = two.consumed)
       => /\ mem = two.mem
          /\ props = << >>
          /\ ptr = two.ptr
          /\ out = two.out
          /\ status = two.status
  /\ (status = "Halted" /\ two.status = "Halted" /\ consumed = two.consumed)
       => steps = two.steps

C34_Equivalent ==
  [][/\ (status \in {"Running", "AwaitingInput"} /\ C34_Fragment(mem, ptr))
          => status' \in C34_Live
     /\ (two.status \in {"Running", "AwaitingInput"} /\ C34_Fragment(two.mem, two.ptr))
          => two.status' \in C34_Live
     /\ C34_Same']_vars

\* both versions have read 11, printed it and halted
C34_Witness ==
  /\ initial = <<3, 5, 4, 5, 99, 0>>
  /\ status = "Halted"
  /\ two.status = "Halted"
  /\ consumed = <<11>>
  /\ two.consumed = <<11>>
  /\ out = <<11>>
  /\ two.out = <<11>>
  /\ mem = <<3, 5, 4, 5, 99, 11>>
  /\ two.mem = mem

(***************************************************************************)
(* C36: for every finite sequence and every size >= 1, the arrays yielded  *)
(* by chunked(iterable, size), in order, concatenate to the items taken    *)
(* from the input; every yielded array except possibly the last has        *)
(* exactly `size` elements and the last has at most `size`; an array is    *)
(* yielded as soon as `size` items have been received, so the array being  *)
(* filled never holds `size` items; an empty input yields nothing.         *)
(***************************************************************************)
RECURSIVE C36_Concat(_)
C36_Concat(arrays) ==
  IF Len(arrays) = 0 THEN << >> ELSE arrays[1] \o C36_Concat(Tail(arrays))

C36_Chunked ==
  chunks.status # "Called"
    => /\ C36_Concat(chunks.yielded) \o chunks.chunk
            = SubSeq(chunks.input, 1, chunks.received)
       /\ \A i \in 1 .. Len(chunks.yielded) :
            /\ Len(chunks.yielded[i]) >= 1
            /\ Len(chunks.yielded[i]) <= chunks.size
            /\ i < Len(chunks.yielded) => Len(chunks.yielded[i]) = chunks.size
       /\ Len(chunks.chunk) < chunks.size
       /\ Len(chunks.input) = 0 => chunks.yielded = << >>
       /\ chunks.status = "Done" => chunks.received = Len(chunks.input)

(***************************************************************************)
(* C37: the robot controller interprets the outputs strictly alternately,  *)
(* starting with PAINT: the (2k+1)-th output paints the panel the robot    *)
(* stands on (0 -> BLACK, otherwise WHITE) and neither moves nor turns it; *)
(* the (2k+2)-th output turns it (0 -> left, otherwise right) and moves it *)
(* forward exactly one cell, painting nothing.  Turning left equals three  *)
(* right turns and four right turns restore the direction.                 *)
(***************************************************************************)
C37_Clockwise == <<"NORTH", "EAST", "SOUTH", "WEST">>

C37_Index(d) == CHOOSE i \in 1 .. 4 : C37_Clockwise[i] = d

\* the direction k quarter turns to the right of d
C37_Right(d, k) == C37_Clockwise[((C37_Index(d) - 1 + k) % 4) + 1]

C37_Left(d) ==
  CASE d = "NORTH" -> "WEST" [] d = "WEST" -> "SOUTH"
    [] d = "SOUTH" -> "EAST" [] d = "EAST" -> "NORTH"

\* one cell ahead of point c when heading d, north being up the screen
C37_Ahead(c, d) ==
  CASE d = "NORTH" -> [x |-> c.x, y |-> c.y - 1]
    [] d = "EAST"  -> [x |-> c.x + 1, y |-> c.y]
    [] d = "SOUTH" -> [x |-> c.x, y |-> c.y + 1]
    [] d = "WEST"  -> [x |-> c.x - 1, y |-> c.y]

\* the colour recorded for the panel at point c
C37_Colour(r, c) ==
  LET key == toString(c.x) \o <<",">> \o toString(c.y)
  IN  IF key \in DOMAIN r.panels THEN r.panels[key] ELSE "BLACK"

C37_Near == {[x |-> i, y |-> j] : i \in -3 .. 3, j \in -3 .. 3}

C37_Paints ==
  /\ robot'.current = robot.current
  /\ robot'.direction = robot.direction
  /\ C37_Colour(robot', robot.current) = IF robot'.last = 0 THEN "BLACK" ELSE "WHITE"
  /\ \A c \in C37_Near \ {robot.current} : C37_Colour(robot', c) = C37_Colour(robot, c)

C37_TurnsAndMoves ==
  /\ robot'.direction = IF robot'.last = 0 THEN C37_Left(robot.direction)
                        ELSE C37_Right(robot.direction, 1)
  /\ robot'.current = C37_Ahead(robot.current, robot'.direction)
  /\ robot'.panels = robot.panels

C37_Alternates ==
  [][/\ robot'.handled = robot.handled + 1
          => IF robot.handled % 2 = 0 THEN C37_Paints ELSE C37_TurnsAndMoves
     /\ C37_Left(robot'.direction) = C37_Right(robot'.direction, 3)
     /\ C37_Right(robot'.direction, 4) = robot'.direction
     /\ turnLeft(robot').direction = C37_Left(robot'.direction)
     /\ turnRight(turnRight(turnRight(turnRight(robot')))) = robot']_vars

\* painted white, turned left and moved west, painted black, turned right
\* and moved north: four outputs handled
C37_Witness ==
  /\ robot.handled = 4
  /\ robot.status = "Consuming"
  /\ robot.current = [x |-> -1, y |-> -1]
  /\ robot.direction = "NORTH"
  /\ C37_Colour(robot, [x |-> 0, y |-> 0]) = "WHITE"
  /\ toXY([x |-> -1, y |-> 0]) \in DOMAIN robot.panels
  /\ C37_Colour(robot, [x |-> -1, y |-> 0]) = "BLACK"

(***************************************************************************)
(* C38: Lab.produce(element, minQty) with an acyclic rule set produces the *)
(* minimum quantity or more: when it returns, the stock of `element` has   *)
(* grown by at least minQty since the call; by exactly minQty for ORE,     *)
(* which is also added to the slurped counter, and by a positive multiple  *)
(* of the yield of the rule otherwise.                                     *)
(***************************************************************************)
C38_Returns(fn) ==
  /\ lab.status = "Ready"
  /\ Len(lab.stack) > 0
  /\ lab.stack[Len(lab.stack)].fn = fn
  /\ Len(lab'.stack) = Len(lab.stack) - 1

C38_Grown == lab'.stock[Top.element] - Top.before

C38_Produces ==
  [][C38_Returns("produce")
       => /\ C38_Grown >= Top.qty
          /\ IF Top.element = "ORE"
             THEN /\ C38_Grown = Top.qty
                  /\ lab'.slurped = Top.slurpedBefore + Top.qty
             ELSE /\ C38_Grown > 0
                  /\ C38_Grown % lab.rules[Top.element].produces = 0]_vars

\* produce('FUEL', 3) has returned on the first rule set: three batches of
\* FUEL, their A and B made from the ORE slurped, all of it used
C38_Witness ==
  /\ lab.status = "Ready"
  /\ lab.stack = << >>
  /\ lab.calls = 1
  /\ "B" \in DOMAIN lab.rules
  /\ lab.stock["FUEL"] = 3
  /\ lab.slurped > 0
  /\ lab.stock["ORE"] = 0

(***************************************************************************)
(* C39: in every state reached from an empty Lab by calls of produce and   *)
(* useOrProduce with an acyclic rule set, the stock of every element is    *)
(* >= 0, and each useOrProduce(element, qty) ends with the full quantity   *)
(* taken from stock: the second useFromStock returns 0.                    *)
(***************************************************************************)
C39_Taken == lab.stock[Top.element] - lab'.stock[Top.element]

C39_Stock ==
  [][/\ \A e \in Elements : lab'.stock[e] >= 0
     /\ lab'.newRemainder = 0
     /\ C38_Returns("useOrProduce")
          => IF Top.phase = "Enter"
             THEN C39_Taken = Top.qty
             ELSE C39_Taken = Top.remainder
                    /\ Top.qty - Top.remainder = Top.before]_vars

\* useOrProduce('B', 2) has returned on the first rule set: a batch of 3 B
\* was produced and 2 taken, and the A left over from making it is in stock
C39_Witness ==
  /\ lab.status = "Ready"
  /\ lab.stack = << >>
  /\ lab.calls = 1
  /\ "B" \in DOMAIN lab.rules
  /\ lab.stock["B"] = 1
  /\ lab.stock["A"] = 0
  /\ lab.slurped = 4
  /\ lab.newRemainder = 0

(***************************************************************************)
(* C35: askNumber returns the numeric value of the first answer that       *)
(* converts to a number: every earlier non-numeric answer is discarded and *)
(* the prompt is issued again, answers are taken in the order entered, and *)
(* the value delivered to opcode 3 is never NaN; if a numeric answer is    *)
(* eventually entered, the suspended engine eventually resumes.            *)
(***************************************************************************)
\* the answers over the alphabet that convert to a number, and their values
C35_Numeric(s) == s \in {<< >>, <<"1">>, <<"1", "1">>, <<"-", "1">>}

C35_Value(s) ==
  CASE s = << >>       -> 0
    [] s = <<"1">>      -> 1
    [] s = <<"1", "1">> -> 11
    [] s = <<"-", "1">> -> -1

C35_Delivered ==
  LET numeric == SelectSeq(typed, C35_Numeric)
  IN  [i \in 1 .. Len(numeric) |-> C35_Value(numeric[i])]

C35_Waiting == status = "AwaitingInput" /\ ~rl.closed

C35_InOrder ==
  /\ consumed = C35_Delivered
  /\ \A i \in 1 .. Len(consumed) : consumed[i] \in Int
  /\ prompts = Len(typed) + (IF status = "AwaitingInput" THEN 1 ELSE 0)

C35_Discards ==
  (Len(typed') = Len(typed) + 1)
    => /\ C35_Waiting
       /\ IF C35_Numeric(typed'[Len(typed')])
          THEN status' # "AwaitingInput"
          ELSE status' = "AwaitingInput" /\ mem' = mem /\ ptr' = ptr
                 /\ prompts' = prompts + 1

C35_AskNumber ==
  /\ []C35_InOrder
  /\ [][C35_Discards]_vars
  /\ (C35_Waiting ~> (status # "AwaitingInput" \/ rl.closed))

\* "x" was discarded, then "-1" was delivered; the second prompt got "11"
C35_Witness ==
  /\ initial = <<3, 5, 3, 6, 99, 0, 0>>
  /\ typed = <<<<"x">>, <<"-", "1">>, <<"1", "1">>>>
  /\ consumed = <<-1, 11>>
  /\ prompts = 3
  /\ status = "Running"
  /\ mem = <<3, 5, 3, 6, 99, -1, 11>>

====
